---- MODULE Spec2Model ----
(***************************************************************************)
(* A model of the DTED tile reader (dted/tile.py and the records it uses). *)
(*                                                                         *)
(* Conventions                                                             *)
(*   - a byte is an integer in 0..255, a file's data record a sequence of  *)
(*     bytes (1-based here, 0-based in Python);                            *)
(*   - numpy's big-endian int16 values are integers in -32768..32767 and   *)
(*     arithmetic on them wraps modulo 2^16 (Wrap16);                      *)
(*   - a coordinate is an integer number of tenths of an arc-second, the   *)
(*     resolution of the DSI origin field; the code's float degrees are    *)
(*     that number divided by 36000, and the index arithmetic of           *)
(*     get_elevation is done on exact fractions (no float rounding error); *)
(*   - an interval is the raw header field, in tenths of an arc-second     *)
(*     (the code divides it by 10).                                        *)
(***************************************************************************)
EXTENDS Integers, Sequences, FiniteSets, TLC

VARIABLES
    file,      \* the DTED file on disk: header fields, ACC tail bytes, data record
    tile,      \* "Unopened", "HeaderParsed" (a Tile object exists) or "Failed"
    uhl,       \* Tile.uhl: the parsed User Header Label record
    dsi,       \* Tile.dsi: the parsed Data Set Identification record
    acc,       \* Tile.acc: the parsed Accuracy Description record
    data,      \* Tile._data: NoData (None) or the resident grid
    handles,   \* the number of handles open on the file
    last,      \* the last operation: its arguments and its outcome
    raw,       \* conversion check: the 16-bit pattern handed to the conversion
    conv,      \* conversion check: the int16 value after `applied` conversions
    applied,   \* conversion check: how many times the conversion was applied
    ix,        \* index check: a header/offset combination and the index computed
    ll,        \* coordinate check: the arguments of a LatLon construction, its result
    ts,        \* tile set check: the directory scanned and the TileSet built from it
    tm         \* tile map check: the folder loaded into a Tiles and the last get_tile

vars == <<file, tile, uhl, dsi, acc, data, handles, last, raw, conv, applied, ix, ll, ts,
         tm>>

-----------------------------------------------------------------------------
(* Program constants.                                                      *)

UHL_SIZE == 80
DSI_SIZE == 648
ACC_SIZE == 2700
HEADER_SIZE == UHL_SIZE + DSI_SIZE + ACC_SIZE
VOID_DATA_VALUE == (0 - 2^15) + 1
DATA_SENTINEL == 170

-----------------------------------------------------------------------------
(* Integer and byte helpers.                                               *)

Min(a, b) == IF a < b THEN a ELSE b
Max(a, b) == IF a > b THEN a ELSE b

\* The value a 16-bit two's-complement register holds after storing v.
Wrap16(v) == ((v + 2^15) % 2^16) - 2^15

\* np.array([pattern], dtype=">i2") / np.frombuffer(.., dtype=">i2") of the two
\* bytes hi, lo: the big-endian signed 16-bit reading.
Int16Of(pattern) == IF pattern >= 2^15 THEN pattern - 2^16 ELSE pattern
PatternOf(v) == v % 2^16

\* Python slice s[start:stop] of a sequence (0-based, negative indices count
\* from the end, out-of-range indices are clipped).
PyNorm(i, n) == IF i < 0 THEN Max(i + n, 0) ELSE Min(i, n)
PySlice(s, start, stop) ==
    LET a == PyNorm(start, Len(s))
        b == PyNorm(stop, Len(s))
    IN  IF a >= b THEN <<>> ELSE [k \in 1..(b - a) |-> s[a + k]]

RECURSIVE SumSeq(_)
SumSeq(s) == IF s = <<>> THEN 0 ELSE s[1] + SumSeq(Tail(s))

\* struct.unpack(">i", b)[0] of exactly 4 bytes: big-endian two's complement.
UnpackI32(b) ==
    (IF b[1] >= 128 THEN b[1] - 256 ELSE b[1]) * 2^24 + b[2] * 2^16 + b[3] * 2^8 + b[4]

\* (sentinel << 24) - struct.unpack(">I", b)[0] of exactly 4 bytes.  Python
\* computes it on unbounded integers and the result may need more than 32
\* bits, so it is kept as two parts: the integer is high * 2^24 + low.
ShiftedMinusU32(sentinel, b) ==
    [high |-> sentinel - b[1], low |-> 0 - (b[2] * 2^16 + b[3] * 2^8 + b[4])]

-----------------------------------------------------------------------------
(* _convert_signed_magnitude, on one element and on arrays.                *)

\* A conversion that negates the negative values instead.
ConvertElementNegate(v) == IF v < 0 THEN Wrap16(0 - v) ELSE v

\* A conversion that leaves the pattern 0x8000 as it reads in int16.
ConvertElementKeepMin(v) ==
    IF v < 0 /\ v # Wrap16(2^15) THEN Wrap16(Wrap16(2^15) - v) ELSE v

\* data[negatives] = np.array(0x8000, dtype=">i2") - data[negatives]:
\* 0x8000 stored as int16 is -32768, and the subtraction wraps in int16.
ConvertElement(v) == IF v < 0 THEN Wrap16(Wrap16(2^15) - v) ELSE v

ConvertSignedMagnitude1(row) == [k \in 1..Len(row) |-> ConvertElement(row[k])]
ConvertSignedMagnitude2(grid) ==
    [c \in 1..Len(grid) |-> ConvertSignedMagnitude1(grid[c])]

-----------------------------------------------------------------------------
(* The DTED file: the header fields the Tile uses, the last bytes of the    *)
(* ACC record (reserved bytes no parser looks at) and the data record.      *)

LatLon(lat, lon) == [latitude |-> lat, longitude |-> lon]

\* The header fields of a file: the DSI origin and corners, the intervals in
\* tenths of an arc-second and, in file order, the two 4-digit counts of the
\* DSI record (latitude lines first) and of the UHL record (longitude first).
Header(origin, sw, ne, lat_iv, lon_iv, lon_count, lat_count) ==
    [ origin |-> origin,
      south_west_corner |-> sw,
      north_west_corner |-> LatLon(ne.latitude, sw.longitude),
      north_east_corner |-> ne,
      south_east_corner |-> LatLon(sw.latitude, ne.longitude),
      latitude_interval |-> lat_iv,
      longitude_interval |-> lon_iv,
      dsi_counts |-> <<lat_count, lon_count>>,
      uhl_counts |-> <<lon_count, lat_count>> ]

TenthsPerDegree == 60 * 60 * 10

\* The headers of the input files.
\*   "unit":   2 x 3 posts, intervals of 1.0 arc-second, corners one degree apart
\*   "coarse": 2 x 2 posts 3.0 arc-seconds apart, corners 3.0 arc-seconds apart
\*   "offset": as "unit" with 2 x 2 posts, but the origin is the north-east corner
\*   "single": one column of 2 posts
Headers ==
    [ unit   |-> Header(LatLon(0, 0), LatLon(0, 0),
                        LatLon(TenthsPerDegree, TenthsPerDegree), 10, 10, 2, 3),
      coarse |-> Header(LatLon(0, 0), LatLon(0, 0), LatLon(30, 30), 30, 30, 2, 2),
      offset |-> Header(LatLon(TenthsPerDegree, TenthsPerDegree), LatLon(0, 0),
                        LatLon(TenthsPerDegree, TenthsPerDegree), 10, 10, 2, 2),
      single |-> Header(LatLon(0, 0), LatLon(0, 0),
                        LatLon(TenthsPerDegree, TenthsPerDegree), 10, 10, 1, 2) ]

HeaderNames == DOMAIN Headers

LonCount(h) == h.dsi_counts[2]
LatCount(h) == h.dsi_counts[1]

\* Raw 16-bit sample patterns of interest: 0xFFFF (sign and magnitude 32767,
\* the VOID value), 0x8000 (negative zero), 0x8001 (minus one, whose int16
\* reading before conversion is -32767) and 0x7FFF (the largest sample).
SpecialPatterns == {65535, 32768, 32769, 32767}

\* The raw grid of a file: every cell a distinct small positive sample, with
\* at most one cell (the first or the last) replaced by a special pattern.
BasePattern(c, r) == 16 * (c + 1) + r + 1
GridChoices == {[cell |-> "none", pattern |-> 0]}
               \cup [cell : {"first", "last"}, pattern : SpecialPatterns]
RawPattern(h, g, c, r) ==
    IF g.cell = "first" /\ c = 0 /\ r = 0 THEN g.pattern
    ELSE IF g.cell = "last" /\ c = LonCount(h) - 1 /\ r = LatCount(h) - 1 THEN g.pattern
    ELSE BasePattern(c, r)

\* Big-endian bytes of an unsigned number.
BE16(n) == <<(n \div 256) % 256, n % 256>>
BE32(n) == <<(n \div 16777216) % 256, (n \div 65536) % 256, (n \div 256) % 256, n % 256>>

RECURSIVE Flatten(_)
Flatten(ss) == IF ss = <<>> THEN <<>> ELSE ss[1] \o Flatten(Tail(ss))

\* One data block: recognition sentinel, 24-bit block count, longitude and
\* latitude counts, the samples and the checksum over everything before it.
BlockBody(first, c, patterns) ==
    <<first, (c \div 65536) % 256, (c \div 256) % 256, c % 256>> \o BE16(c) \o BE16(0)
    \o Flatten([k \in 1..Len(patterns) |-> BE16(patterns[k])])
MkBlock(first, c, patterns, sum_delta) ==
    LET body == BlockBody(first, c, patterns)
    IN  body \o BE32(SumSeq(body) + sum_delta)

\* What is wrong with the data record of a file.
\*   badsum:      column col carries a checksum that is off by one
\*   badsentinel: column col starts with 0x55 and its checksum matches
\*   badboth:     column col starts with 0x55 and its checksum does not match
\*   twobad:      column 0 has a bad checksum and the last column a bad sentinel
\*   twobad2:     column 0 has a bad sentinel and the last column a bad checksum
\*   extra:       n bytes follow the last block
\*   cut:         the last n bytes of the record are missing
\*   cutvalid:    the last block holds one sample less, with a matching checksum
MaxExtra == 2
CutSizes(h) == {1, 2, 12 + 2 * LatCount(h)}
Damages(h) ==
    {[kind |-> "none", col |-> 0, n |-> 0], [kind |-> "cutvalid", col |-> 0, n |-> 0]}
    \cup [kind : {"badsum", "badsentinel", "badboth"}, col : 0..(LonCount(h) - 1), n : {0}]
    \cup (IF LonCount(h) > 1
            THEN [kind : {"twobad", "twobad2"}, col : {0}, n : {0}] ELSE {})
    \cup [kind : {"extra"}, col : {0}, n : 1..MaxExtra]
    \cup [kind : {"cut"}, col : {0}, n : CutSizes(h)]

ColumnPatterns(h, g, c) == [r \in 1..LatCount(h) |-> RawPattern(h, g, c, r - 1)]

DamagedBlock(h, g, d, c) ==
    LET last_col == LonCount(h) - 1
        bad_first == \/ d.kind \in {"badsentinel", "badboth"} /\ d.col = c
                     \/ d.kind = "twobad" /\ c = last_col
                     \/ d.kind = "twobad2" /\ c = 0
        bad_sum == \/ d.kind = "badsum" /\ d.col = c
                   \/ d.kind = "twobad" /\ c = 0
                   \/ d.kind = "twobad2" /\ c = last_col
        stale == d.kind = "badboth" /\ d.col = c
        patterns == IF d.kind = "cutvalid" /\ c = last_col
                      THEN SubSeq(ColumnPatterns(h, g, c), 1, LatCount(h) - 1)
                      ELSE ColumnPatterns(h, g, c)
    IN  MkBlock(IF bad_first THEN 85 ELSE DATA_SENTINEL, c, patterns,
                IF bad_sum THEN 1 ELSE IF stale THEN DATA_SENTINEL ELSE 0)

DataRecord(h, g, d) ==
    LET blocks == Flatten([k \in 1..LonCount(h) |-> DamagedBlock(h, g, d, k - 1)])
    IN  IF d.kind = "extra" THEN blocks \o [k \in 1..d.n |-> 0]
        ELSE IF d.kind = "cut" THEN SubSeq(blocks, 1, Len(blocks) - d.n)
        ELSE blocks

\* The reserved bytes that end the ACC record: blanks, or bytes that happen to
\* form a well-formed data block.
AccTails(h) ==
    {[k \in 1..(12 + 2 * LatCount(h)) |-> 32]}
    \cup (IF h.origin # h.south_west_corner
            THEN {MkBlock(DATA_SENTINEL, 0, [r \in 1..LatCount(h) |-> 100 + r], 0)}
            ELSE {})

\* Damaged files carry the plain grid or a grid whose first sample is VOID.
GridsFor(d) ==
    IF d.kind = "none" THEN GridChoices
    ELSE {[cell |-> "none", pattern |-> 0], [cell |-> "first", pattern |-> 65535]}

\* The leading bytes of the three header records: b"UHL1", b"DSI", b"ACC".
UHL_SENTINEL == <<85, 72, 76, 49>>
DSI_SENTINEL == <<68, 83, 73>>
ACC_SENTINEL == <<65, 67, 67>>

\* A four-byte accuracy field of the ACC record: b"0050", b"NA  ", b"    ",
\* b"1.5 " and b" 7  ".
AccuracyNumber == <<48, 48, 53, 48>>
AccuracyNA == <<78, 65, 32, 32>>
AccuracyBlank == <<32, 32, 32, 32>>
AccuracyDecimal == <<49, 46, 53, 32>>
AccuracyPadded == <<32, 55, 32, 32>>

\* The head of a file: how many of its first 3428 bytes exist (a file cut
\* short inside its header has no data record), the leading bytes of each
\* header record and the four accuracy fields of the ACC record.
FileHead(len, uhl_magic, dsi_magic, acc_magic, accuracy) ==
    [len |-> len, uhl_magic |-> uhl_magic, dsi_magic |-> dsi_magic,
     acc_magic |-> acc_magic, accuracy |-> accuracy]

GoodHead ==
    FileHead(HEADER_SIZE, UHL_SENTINEL, DSI_SENTINEL, ACC_SENTINEL,
         <<AccuracyNumber, AccuracyNA, AccuracyNumber, AccuracyNumber>>)

MkFile(n, g, d, t) ==
    [name |-> n, hdr |-> Headers[n], acc_tail |-> t,
     rec |-> DataRecord(Headers[n], g, d), grid |-> g, damage |-> d,
     head |-> GoodHead]

FilesOf(n) ==
    UNION { UNION { {MkFile(n, g, d, t) : t \in AccTails(Headers[n])} : g \in GridsFor(d) } :
            d \in Damages(Headers[n]) }

\* Files whose head is damaged: the "unit" file with the plain grid, cut short
\* inside its header, or with other leading bytes in some of its header
\* records (b"UHL2", b"DSJ", b"ACD"), or with other accuracy fields.
HeaderLens == {0, 50, UHL_SIZE, 400, UHL_SIZE + DSI_SIZE, 2000, HEADER_SIZE}
AccuracyFields == {AccuracyNumber, AccuracyNA, AccuracyBlank, AccuracyDecimal}
HeadDamages ==
    { FileHead(len, um, dm, am, GoodHead.accuracy) :
        len \in HeaderLens, um \in {UHL_SENTINEL, <<85, 72, 76, 50>>},
        dm \in {DSI_SENTINEL, <<68, 83, 74>>}, am \in {ACC_SENTINEL, <<65, 67, 68>>} }
    \cup { FileHead(HEADER_SIZE, UHL_SENTINEL, DSI_SENTINEL, ACC_SENTINEL, <<a, b, c, d>>) :
             a \in AccuracyFields, b \in AccuracyFields, c \in AccuracyFields,
             d \in AccuracyFields }
    \cup { FileHead(HEADER_SIZE, UHL_SENTINEL, DSI_SENTINEL, am,
                <<AccuracyPadded, AccuracyNA, AccuracyBlank, AccuracyNumber>>) :
             am \in {ACC_SENTINEL, <<65, 67, 68>>} }

PlainFile(n) ==
    MkFile(n, [cell |-> "none", pattern |-> 0], [kind |-> "none", col |-> 0, n |-> 0],
           [k \in 1..(12 + 2 * LatCount(Headers[n])) |-> 32])

WithHead(f, hd) ==
    [f EXCEPT !.head = hd, !.rec = IF hd.len < HEADER_SIZE THEN <<>> ELSE @]

\* A file whose UHL record carries other counts than its DSI record.
WithUHLCounts(f, counts) == [f EXCEPT !.hdr.uhl_counts = counts]

HeadFiles ==
    {WithHead(PlainFile("unit"), hd) : hd \in HeadDamages}
    \cup {WithUHLCounts(PlainFile("unit"), <<3, 2>>)}

Files == UNION {FilesOf(n) : n \in HeaderNames} \cup HeadFiles

\* f.seek(offset); f.read(n): the bytes of the file from an absolute offset,
\* stopping at the end of the file.  Only the end of the header is modelled.
FileByte(f, o) ==
    IF o >= HEADER_SIZE THEN f.rec[o - HEADER_SIZE + 1]
    ELSE f.acc_tail[o - (HEADER_SIZE - Len(f.acc_tail)) + 1]
FileSize(f) == IF f.head.len < HEADER_SIZE THEN f.head.len ELSE HEADER_SIZE + Len(f.rec)
ReadAt(f, offset, n) ==
    LET stop == Min(offset + n, FileSize(f))
    IN  IF stop <= offset THEN <<>> ELSE [k \in 1..(stop - offset) |-> FileByte(f, offset + k - 1)]

-----------------------------------------------------------------------------
(* Outcomes of a call: a returned value, None, or a raised exception.       *)

\* An exception carries the number its message reports, as high * 2^24 + low.
Small(n) == [high |-> 0, low |-> n]
Returned(v) ==
    [kind |-> "value", v |-> v, error |-> "", detail |-> "", reports |-> Small(0)]
ReturnedNone ==
    [kind |-> "none", v |-> 0, error |-> "", detail |-> "", reports |-> Small(0)]
Raised(error, detail, reports) ==
    [kind |-> "error", v |-> 0, error |-> error, detail |-> detail, reports |-> reports]

-----------------------------------------------------------------------------
(* _parse_data_block: the samples of one block as int16 values, not yet     *)
(* converted from signed magnitude, or the exception raised.                *)

Parsed(samples) == [outcome |-> ReturnedNone, samples |-> samples]
NotParsed(outcome) == [outcome |-> outcome, samples |-> <<>>]

\* np.frombuffer(payload, dtype=">i2")
FromBufferI2(payload) ==
    [k \in 1..(Len(payload) \div 2) |-> Int16Of(payload[2 * k - 1] * 256 + payload[2 * k])]

ChecksumMatches(block) ==
    SumSeq(PySlice(block, 0, -4)) = UnpackI32(PySlice(block, -4, Len(block)))

\* A parser that never verifies the checksum.
ParseDataBlockUnverified(block, perform_checksum) ==
    IF Len(block) = 0
      THEN NotParsed(Raised("IndexError", "block[0]", Small(0)))
    ELSE IF block[1] # DATA_SENTINEL
      THEN NotParsed(Raised("InvalidFileError", "sentinel", Small(block[1])))
    ELSE IF Len(PySlice(block, 8, -4)) % 2 # 0
      THEN NotParsed(Raised("ValueError", "frombuffer", Small(0)))
    ELSE Parsed(FromBufferI2(PySlice(block, 8, -4)))

\* A parser that looks at the sentinel only when it verifies the checksum.
ParseDataBlockSentinelIfVerified(block, perform_checksum) ==
    IF perform_checksum /\ Len(PySlice(block, -4, Len(block))) # 4
      THEN NotParsed(Raised("struct.error", "unpack", Small(0)))
    ELSE IF perform_checksum /\ ~ChecksumMatches(block)
      THEN NotParsed(Raised("InvalidFileError", "checksum",
                            ShiftedMinusU32(DATA_SENTINEL, PySlice(block, 0, 4))))
    ELSE IF Len(block) = 0
      THEN NotParsed(Raised("IndexError", "block[0]", Small(0)))
    ELSE IF perform_checksum /\ block[1] # DATA_SENTINEL
      THEN NotParsed(Raised("InvalidFileError", "sentinel", Small(block[1])))
    ELSE IF Len(PySlice(block, 8, -4)) % 2 # 0
      THEN NotParsed(Raised("ValueError", "frombuffer", Small(0)))
    ELSE Parsed(FromBufferI2(PySlice(block, 8, -4)))

ParseDataBlock(block, perform_checksum) ==
    IF perform_checksum /\ Len(PySlice(block, -4, Len(block))) # 4
      THEN NotParsed(Raised("struct.error", "unpack", Small(0)))
    ELSE IF perform_checksum /\ ~ChecksumMatches(block)
      THEN NotParsed(Raised("InvalidFileError", "checksum",
                            ShiftedMinusU32(DATA_SENTINEL, PySlice(block, 0, 4))))
    ELSE IF Len(block) = 0
      THEN NotParsed(Raised("IndexError", "block[0]", Small(0)))
    ELSE IF block[1] # DATA_SENTINEL
      THEN NotParsed(Raised("InvalidFileError", "sentinel", Small(block[1])))
    ELSE IF Len(PySlice(block, 8, -4)) % 2 # 0
      THEN NotParsed(Raised("ValueError", "frombuffer", Small(0)))
    ELSE Parsed(FromBufferI2(PySlice(block, 8, -4)))

-----------------------------------------------------------------------------
(* The DSI record of a Tile.                                                *)

\* DataSetIdentification.from_bytes: the fields used by the Tile.  The two
\* counts are read in file order and reversed, giving (longitude, latitude).
ParseDSI(h) ==
    [ origin |-> h.origin,
      south_west_corner |-> h.south_west_corner,
      north_west_corner |-> h.north_west_corner,
      north_east_corner |-> h.north_east_corner,
      south_east_corner |-> h.south_east_corner,
      latitude_interval |-> h.latitude_interval,
      longitude_interval |-> h.longitude_interval,
      shape |-> <<h.dsi_counts[2], h.dsi_counts[1]>> ]

NoDSI == ParseDSI(Header(LatLon(0, 0), LatLon(0, 0), LatLon(0, 0), 0, 0, 0, 0))

data_block_length(d) == 12 + (2 * d.shape[2])

\* Tile._data is None, or a grid indexed [longitude_index][latitude_index].
NoData == [present |-> FALSE, grid |-> <<>>]
Grid(g) == [present |-> TRUE, grid |-> g]

-----------------------------------------------------------------------------
(* The header records: UserHeaderLabel, DataSetIdentification and           *)
(* AccuracyDescription .from_bytes, and the three reads of Tile.__init__.   *)

\* len(f.read(n)) with the file positioned at offset, inside the header.
HeadRead(f, offset, n) == Max(0, Min(n, f.head.len - offset))

\* An Optional[int] attribute.
Absent == [present |-> FALSE, v |-> 0]
Present(v) == [present |-> TRUE, v |-> v]

\* b"NA" in field
ContainsNA(field) ==
    \E k \in 1..(Len(field) - 1) : field[k] = 78 /\ field[k + 1] = 65

\* int(field) of a bytes object: white space around the number is dropped, a
\* sign may lead, and what remains must be decimal digits, single underscores
\* allowed between them; anything else is a ValueError.
IsSpace(b) == b \in {9, 10, 11, 12, 13, 32}
IsDigit(b) == b \in 48..57
RECURSIVE StripLeft(_)
StripLeft(s) == IF s # <<>> /\ IsSpace(s[1]) THEN StripLeft(Tail(s)) ELSE s
RECURSIVE StripRight(_)
StripRight(s) ==
    IF s # <<>> /\ IsSpace(s[Len(s)]) THEN StripRight(SubSeq(s, 1, Len(s) - 1)) ELSE s
Unsigned(s) ==
    LET t == StripRight(StripLeft(s))
    IN  IF t # <<>> /\ t[1] \in {43, 45} THEN Tail(t) ELSE t
IntIsValid(s) ==
    LET u == Unsigned(s)
    IN  /\ u # <<>>
        /\ IsDigit(u[1]) /\ IsDigit(u[Len(u)])
        /\ \A k \in 1..Len(u) : IsDigit(u[k]) \/ u[k] = 95
        /\ \A k \in 1..(Len(u) - 1) : ~(u[k] = 95 /\ u[k + 1] = 95)
RECURSIVE DigitsValue(_)
DigitsValue(u) ==
    IF u = <<>> THEN 0
    ELSE IF u[Len(u)] = 95 THEN DigitsValue(SubSeq(u, 1, Len(u) - 1))
    ELSE 10 * DigitsValue(SubSeq(u, 1, Len(u) - 1)) + (u[Len(u)] - 48)
IntValue(s) ==
    LET t == StripRight(StripLeft(s))
    IN  IF t[1] = 45 THEN 0 - DigitsValue(Unsigned(s)) ELSE DigitsValue(Unsigned(s))

\* UserHeaderLabel.from_bytes of the bytes read first: the shape is the two
\* counts of the record in file order.
NoUHL == [shape |-> <<0, 0>>]
UHLFromBytes(f) ==
    LET got == HeadRead(f, 0, UHL_SIZE)
    IN  IF got < UHL_SIZE
          THEN [outcome |-> Raised("ValueError", "UHL size", Small(got)), record |-> NoUHL]
        ELSE IF f.head.uhl_magic # UHL_SENTINEL
          THEN [outcome |-> Raised("InvalidFileError", "UHL sentinel", Small(0)),
                record |-> NoUHL]
        ELSE [outcome |-> ReturnedNone,
              record |-> [shape |-> <<f.hdr.uhl_counts[1], f.hdr.uhl_counts[2]>>]]

\* DataSetIdentification.from_bytes of the bytes read next.
DSIFromBytes(f) ==
    LET got == HeadRead(f, UHL_SIZE, DSI_SIZE)
    IN  IF got < DSI_SIZE
          THEN [outcome |-> Raised("ValueError", "DSI size", Small(got)), record |-> NoDSI]
        ELSE IF f.head.dsi_magic # DSI_SENTINEL
          THEN [outcome |-> Raised("InvalidFileError", "DSI sentinel", Small(0)),
                record |-> NoDSI]
        ELSE [outcome |-> ReturnedNone, record |-> ParseDSI(f.hdr)]

\* One accuracy field: None if it holds b"NA", else int(field); a ValueError
\* of int() is raised again unless `unsafe`, and then the attribute stays None.
AccuracyRaises(field, unsafe) == ~ContainsNA(field) /\ ~IntIsValid(field) /\ ~unsafe
AccuracyOf(field) ==
    IF ContainsNA(field) \/ ~IntIsValid(field) THEN Absent ELSE Present(IntValue(field))

NoACC ==
    [absolute_horizontal |-> Absent, absolute_vertical |-> Absent,
     relative_horizontal |-> Absent, relative_vertical |-> Absent]

\* An ACC parser that lets no malformed accuracy field stop it.
ACCFromBytesLenient(f, unsafe) ==
    LET got == HeadRead(f, UHL_SIZE + DSI_SIZE, ACC_SIZE)
        a == f.head.accuracy
    IN  IF got < ACC_SIZE
          THEN [outcome |-> Raised("ValueError", "ACC size", Small(got)), record |-> NoACC]
        ELSE IF f.head.acc_magic # ACC_SENTINEL
          THEN [outcome |-> Raised("InvalidFileError", "ACC sentinel", Small(0)),
                record |-> NoACC]
        ELSE [outcome |-> ReturnedNone,
              record |-> [absolute_horizontal |-> AccuracyOf(a[1]),
                          absolute_vertical |-> AccuracyOf(a[2]),
                          relative_horizontal |-> AccuracyOf(a[3]),
                          relative_vertical |-> AccuracyOf(a[4])]]

\* AccuracyDescription.from_bytes of the bytes read last.  The four fields
\* are decoded in the order absolute horizontal, absolute vertical, relative
\* horizontal, relative vertical, and the first ValueError ends the parse.
ACCFromBytes(f, unsafe) ==
    LET got == HeadRead(f, UHL_SIZE + DSI_SIZE, ACC_SIZE)
        a == f.head.accuracy
    IN  IF got < ACC_SIZE
          THEN [outcome |-> Raised("ValueError", "ACC size", Small(got)), record |-> NoACC]
        ELSE IF f.head.acc_magic # ACC_SENTINEL
          THEN [outcome |-> Raised("InvalidFileError", "ACC sentinel", Small(0)),
                record |-> NoACC]
        ELSE IF \E k \in 1..4 : AccuracyRaises(a[k], unsafe)
          THEN [outcome |->
                    Raised("ValueError", "ACC accuracy",
                           Small(CHOOSE k \in 1..4 :
                                   /\ AccuracyRaises(a[k], unsafe)
                                   /\ \A j \in 1..(k - 1) : ~AccuracyRaises(a[j], unsafe))),
                record |-> NoACC]
        ELSE [outcome |-> ReturnedNone,
              record |-> [absolute_horizontal |-> AccuracyOf(a[1]),
                          absolute_vertical |-> AccuracyOf(a[2]),
                          relative_horizontal |-> AccuracyOf(a[3]),
                          relative_vertical |-> AccuracyOf(a[4])]]

\* A constructor that parses the DSI record before the UHL record.
ParseHeadersDSIFirst(f) ==
    LET u == UHLFromBytes(f)
        d == DSIFromBytes(f)
        a == ACCFromBytes(f, FALSE)
    IN  IF d.outcome.kind = "error"
          THEN [outcome |-> d.outcome, uhl |-> NoUHL, dsi |-> NoDSI, acc |-> NoACC]
        ELSE IF u.outcome.kind = "error"
          THEN [outcome |-> u.outcome, uhl |-> NoUHL, dsi |-> NoDSI, acc |-> NoACC]
        ELSE IF a.outcome.kind = "error"
          THEN [outcome |-> a.outcome, uhl |-> NoUHL, dsi |-> NoDSI, acc |-> NoACC]
        ELSE [outcome |-> ReturnedNone, uhl |-> u.record, dsi |-> d.record,
              acc |-> a.record]

\* The header part of Tile.__init__: the three records are read and parsed in
\* file order, and the first exception leaves the constructor.
ParseHeaders(f) ==
    LET u == UHLFromBytes(f)
        d == DSIFromBytes(f)
        a == ACCFromBytes(f, FALSE)
    IN  IF u.outcome.kind = "error"
          THEN [outcome |-> u.outcome, uhl |-> NoUHL, dsi |-> NoDSI, acc |-> NoACC]
        ELSE IF d.outcome.kind = "error"
          THEN [outcome |-> d.outcome, uhl |-> NoUHL, dsi |-> NoDSI, acc |-> NoACC]
        ELSE IF a.outcome.kind = "error"
          THEN [outcome |-> a.outcome, uhl |-> NoUHL, dsi |-> NoDSI, acc |-> NoACC]
        ELSE [outcome |-> ReturnedNone, uhl |-> u.record, dsi |-> d.record,
              acc |-> a.record]

\* `with self.file.open("rb") as f:` around a body with the given outcome:
\* the number of open handles after the statement, n being the number before.
\* A with statement that does not close the file when its body raises.
WithFileLeaky(n, outcome) == IF outcome.kind = "error" THEN n + 1 ELSE (n + 1) - 1

\* The file object's __exit__ closes the handle however the body ends.
WithFile(n, outcome) == (n + 1) - 1

-----------------------------------------------------------------------------
(* Tile.__contains__ and Tile.get_elevation.                                *)

\* A containment test that leaves out the northern and eastern edges.
ContainsHalfOpen(d, p) ==
    /\ d.south_west_corner.latitude <= p.latitude
    /\ p.latitude < d.north_east_corner.latitude
    /\ d.south_west_corner.longitude <= p.longitude
    /\ p.longitude < d.north_east_corner.longitude

Contains(d, p) ==
    LET within_latitude_band ==
            /\ d.south_west_corner.latitude <= p.latitude
            /\ p.latitude <= d.north_east_corner.latitude
        within_longitude_band ==
            /\ d.south_west_corner.longitude <= p.longitude
            /\ p.longitude <= d.north_east_corner.longitude
    IN  within_latitude_band /\ within_longitude_band

\* Python's round() of the fraction num / den, den > 0: to the nearest integer,
\* a tie going to the even one.
PyRound(num, den) ==
    LET q == num \div den
        r == num - q * den
    IN  IF 2 * r < den THEN q
        ELSE IF 2 * r > den THEN q + 1
        ELSE IF q % 2 = 0 THEN q ELSE q + 1

\* round((coordinate - origin) * (count - 1) / interval) with the coordinates in
\* degrees (tenths of an arc-second / 36000) and the interval in arc-seconds
\* (raw field / 10).
GridIndex(coordinate, origin, count, interval) ==
    PyRound((coordinate - origin) * (count - 1) * 10, TenthsPerDegree * interval)

latitude_index(d, p) ==
    GridIndex(p.latitude, d.origin.latitude, d.shape[2], d.latitude_interval)
longitude_index(d, p) ==
    GridIndex(p.longitude, d.origin.longitude, d.shape[1], d.longitude_interval)

\* numpy/Python indexing of an axis of length n: negative indices count from
\* the end; anything outside -n..n-1 is an IndexError.
IndexInRange(i, n) == (0 - n) <= i /\ i < n
NormIndex(i, n) == IF i < 0 THEN i + n + 1 ELSE i + 1

\* self._data[longitude_index, latitude_index]
InMemoryLookup(grid, lon_ix, lat_ix) ==
    IF ~IndexInRange(lon_ix, Len(grid))
      THEN Raised("IndexError", "axis 0", Small(lon_ix))
    ELSE IF ~IndexInRange(lat_ix, Len(grid[1]))
      THEN Raised("IndexError", "axis 1", Small(lat_ix))
    ELSE Returned(grid[NormIndex(lon_ix, Len(grid))][NormIndex(lat_ix, Len(grid[1]))])

\* A seek path that returns the sample without converting the block.
SeekLookupUnconverted(f, d, lon_ix, lat_ix) ==
    LET block_length == data_block_length(d)
        offset == HEADER_SIZE + (lon_ix * block_length)
    IN  IF offset < 0 THEN Raised("OSError", "seek", Small(offset))
        ELSE LET parsed == ParseDataBlock(ReadAt(f, offset, block_length), TRUE)
                 data_block == parsed.samples
             IN  IF parsed.outcome.kind = "error" THEN parsed.outcome
                 ELSE IF ~IndexInRange(lat_ix, Len(data_block))
                   THEN Raised("IndexError", "axis 0", Small(lat_ix))
                 ELSE Returned(data_block[NormIndex(lat_ix, Len(data_block))])

\* The seek-and-read-one-block path of get_elevation.
SeekLookup(f, d, lon_ix, lat_ix) ==
    LET block_length == data_block_length(d)
        offset == HEADER_SIZE + (lon_ix * block_length)
    IN  IF offset < 0 THEN Raised("OSError", "seek", Small(offset))
        ELSE LET parsed == ParseDataBlock(ReadAt(f, offset, block_length), TRUE)
                 data_block == ConvertSignedMagnitude1(parsed.samples)
             IN  IF parsed.outcome.kind = "error" THEN parsed.outcome
                 ELSE IF ~IndexInRange(lat_ix, Len(data_block))
                   THEN Raised("IndexError", "axis 0", Small(lat_ix))
                 ELSE Returned(data_block[NormIndex(lat_ix, Len(data_block))])

\* A get_elevation that tests containment only on the seek path.
GetElevationUnguarded(f, d, dat, p) ==
    IF dat.present
      THEN [outcome |-> InMemoryLookup(dat.grid, longitude_index(d, p), latitude_index(d, p)),
            read |-> FALSE, warned |-> FALSE]
    ELSE IF ~Contains(d, p)
      THEN [outcome |-> Raised("NoElevationDataError", "not contained", Small(0)),
            read |-> FALSE, warned |-> FALSE]
    ELSE [outcome |-> SeekLookup(f, d, longitude_index(d, p), latitude_index(d, p)),
          read |-> TRUE, warned |-> FALSE]

\* A get_elevation that warns when the seek path returns the VOID value.
GetElevationWarning(f, d, dat, p) ==
    LET sought == SeekLookup(f, d, longitude_index(d, p), latitude_index(d, p))
    IN  IF ~Contains(d, p)
          THEN [outcome |-> Raised("NoElevationDataError", "not contained", Small(0)),
                read |-> FALSE, warned |-> FALSE]
        ELSE IF dat.present
          THEN [outcome |-> InMemoryLookup(dat.grid, longitude_index(d, p),
                                           latitude_index(d, p)),
                read |-> FALSE, warned |-> FALSE]
        ELSE [outcome |-> sought, read |-> TRUE,
              warned |-> sought.kind = "value" /\ sought.v = VOID_DATA_VALUE]

\* get_elevation: the outcome, whether the file was opened and whether a
\* warning was emitted (no statement of the method emits one).
GetElevation(f, d, dat, p) ==
    IF ~Contains(d, p)
      THEN [outcome |-> Raised("NoElevationDataError", "not contained", Small(0)),
            read |-> FALSE, warned |-> FALSE]
    ELSE IF d.latitude_interval = 0 \/ d.longitude_interval = 0
      THEN [outcome |-> Raised("ZeroDivisionError", "interval", Small(0)),
            read |-> FALSE, warned |-> FALSE]
    ELSE IF dat.present
      THEN [outcome |-> InMemoryLookup(dat.grid, longitude_index(d, p), latitude_index(d, p)),
            read |-> FALSE, warned |-> FALSE]
    ELSE [outcome |-> SeekLookup(f, d, longitude_index(d, p), latitude_index(d, p)),
          read |-> TRUE, warned |-> FALSE]

-----------------------------------------------------------------------------
(* Tile.load_data.                                                          *)

Column(f, d, column) ==
    PySlice(f.rec, column * data_block_length(d), (column + 1) * data_block_length(d))

ParsedColumns(f, d, perform_checksum) ==
    [k \in 1..d.shape[1] |-> ParseDataBlock(Column(f, d, k - 1), perform_checksum)]

\* A load that parses every column and surfaces the error of the last bad one.
LastBad(parsed) ==
    CHOOSE k \in 1..Len(parsed) :
        /\ parsed[k].outcome.kind = "error"
        /\ \A j \in (k + 1)..Len(parsed) : parsed[j].outcome.kind # "error"

\* The column whose block raises first: the list comprehension parses the
\* columns in increasing order and stops at the first exception.
FirstBad(parsed) ==
    CHOOSE k \in 1..Len(parsed) :
        /\ parsed[k].outcome.kind = "error"
        /\ \A j \in 1..(k - 1) : parsed[j].outcome.kind # "error"

InGrid(grid, v) == \E c \in 1..Len(grid) : \E r \in 1..Len(grid[c]) : grid[c][r] = v

\* A load_data that looks for the VOID value before converting the grid.
LoadDataVoidUnconverted(f, d, perform_checksum) ==
    LET parsed == ParsedColumns(f, d, perform_checksum)
        columns == [k \in 1..Len(parsed) |-> parsed[k].samples]
        converted == ConvertSignedMagnitude2(columns)
    IN  IF \E k \in 1..Len(parsed) : parsed[k].outcome.kind = "error"
          THEN [outcome |-> parsed[FirstBad(parsed)].outcome, assigned |-> FALSE,
                grid |-> <<>>, warned |-> FALSE]
        ELSE IF \E k \in 1..Len(columns) : Len(columns[k]) # Len(columns[1])
          THEN [outcome |-> Raised("ValueError", "ragged", Small(0)), assigned |-> FALSE,
                grid |-> <<>>, warned |-> FALSE]
        ELSE [outcome |-> ReturnedNone, assigned |-> TRUE, grid |-> converted,
              warned |-> InGrid(columns, VOID_DATA_VALUE)]

\* load_data: the outcome, the grid assigned to self._data (if any) and
\* whether the VoidDataWarning was emitted.  np.asarray of columns of unequal
\* length does not yield a 2-D int16 array: with latitude counts of 2 or more
\* the call fails (in np.asarray itself, or in the comparison `data < 0`).
LoadData(f, d, perform_checksum) ==
    LET parsed == ParsedColumns(f, d, perform_checksum)
        columns == [k \in 1..Len(parsed) |-> parsed[k].samples]
        converted == ConvertSignedMagnitude2(columns)
    IN  IF \E k \in 1..Len(parsed) : parsed[k].outcome.kind = "error"
          THEN [outcome |-> parsed[FirstBad(parsed)].outcome, assigned |-> FALSE,
                grid |-> <<>>, warned |-> FALSE]
        ELSE IF \E k \in 1..Len(columns) : Len(columns[k]) # Len(columns[1])
          THEN [outcome |-> Raised("ValueError", "ragged", Small(0)), assigned |-> FALSE,
                grid |-> <<>>, warned |-> FALSE]
        ELSE [outcome |-> ReturnedNone, assigned |-> TRUE, grid |-> converted,
              warned |-> InGrid(converted, VOID_DATA_VALUE)]

\* A load that assigns the columns parsed so far when it fails.
DataAfterLoadPartial(dat, r) == Grid(r.grid)

\* A load that leaves the Tile without a grid when it fails.
DataAfterLoadReset(dat, r) == IF r.assigned THEN Grid(r.grid) ELSE NoData

\* self._data after load_data: the assignment is the last statement that can
\* raise, so a failed load leaves the attribute as it was.
DataAfterLoad(dat, r) == IF r.assigned THEN Grid(r.grid) ELSE dat

\* A lookup that keeps the sample it read from the file as the grid.
DataAfterLookupCaching(dat, r) ==
    IF r.read /\ r.outcome.kind = "value" THEN Grid(<<<<r.outcome.v>>>>) ELSE dat

\* self._data after get_elevation: neither the in-memory path nor the seek
\* path assigns it; the block read from the file is a local.
DataAfterLookup(dat, r) == dat

\* Tile.data: the resident grid, or the ValueError "Data not loaded into
\* memory."
DataAccessor(dat) ==
    IF dat.present THEN ReturnedNone ELSE Raised("ValueError", "not loaded", Small(0))

-----------------------------------------------------------------------------
(* The Tile as a state machine over one file.                               *)

\* The points handed to get_elevation and __contains__: the four corners, points
\* inside the bounding box of the file's corners (the centre, where the index
\* arithmetic meets a tie, and points nearer the far posts) and points just
\* outside it, in one coordinate or in both.
Points(h) ==
    LET s == h.south_west_corner.latitude
        n == h.north_east_corner.latitude
        w == h.south_west_corner.longitude
        e == h.north_east_corner.longitude
        lat_mid == s + (n - s) \div 2
        lon_mid == w + (e - w) \div 2
        lat_far == s + (3 * (n - s)) \div 4
        lon_far == w + (3 * (e - w)) \div 4
    IN  { LatLon(s, w), LatLon(n, w), LatLon(s, e), LatLon(n, e),
          LatLon(lat_mid, lon_mid), LatLon(lat_far, lon_far), LatLon(lat_mid, lon_far),
          LatLon(s - 1, w - 1), LatLon(n + 1, e + 1),
          LatLon(s - 1, lon_mid), LatLon(lat_mid, e + 1), LatLon(n + 1, w) }

NoPoint == LatLon(0, 0)
NoCall ==
    [op |-> "", flag |-> FALSE, point |-> NoPoint, outcome |-> ReturnedNone,
     answer |-> FALSE, read |-> FALSE, warned |-> FALSE, resident |-> FALSE,
     record |-> NoACC]
Call(op, flag, point, outcome, answer, read, warned, resident) ==
    [op |-> op, flag |-> flag, point |-> point, outcome |-> outcome,
     answer |-> answer, read |-> read, warned |-> warned, resident |-> resident,
     record |-> NoACC]

NoFile == [name |-> "", hdr |-> Header(NoPoint, NoPoint, NoPoint, 0, 0, 0, 0),
           acc_tail |-> <<>>, rec |-> <<>>,
           grid |-> [cell |-> "none", pattern |-> 0],
           damage |-> [kind |-> "none", col |-> 0, n |-> 0],
           head |-> GoodHead]
NoIx == [count |-> 0, interval |-> 0, offset |-> 0, index |-> 0, done |-> FALSE]

NoLL == [op |-> "", lat |-> 0, lon |-> 0,
         lat_src |-> [width |-> 0, deg |-> 0, min |-> 0, sec |-> 0, frac |-> 0, hemi |-> 0],
         lon_src |-> [width |-> 0, deg |-> 0, min |-> 0, sec |-> 0, frac |-> 0, hemi |-> 0],
         lat_str |-> <<>>, lon_str |-> <<>>, done |-> FALSE,
         outcome |-> ReturnedNone, value |-> NoPoint,
         lat_dms |-> <<0, 0, 0>>, lon_dms |-> <<0, 0, 0>>]
NoTS == [directory |-> <<>>, suffix |-> FALSE, done |-> FALSE,
         outcome |-> ReturnedNone, tiles |-> {}]
NoTM == [folder |-> <<>>, isdir |-> FALSE, dted_level |-> 0, loaded |-> FALSE,
         returned |-> ReturnedNone, tile_map |-> [k \in {} |-> 0],
         asked |-> FALSE, point |-> NoPoint, got |-> 0]

Init ==
    /\ file \in Files
    /\ tile = "Unopened"
    /\ uhl = NoUHL
    /\ dsi = NoDSI
    /\ acc = NoACC
    /\ data = NoData
    /\ handles = 0
    /\ last = NoCall
    /\ raw = 0 /\ conv = 0 /\ applied = 0
    /\ ix = NoIx
    /\ ll = NoLL
    /\ ts = NoTS
    /\ tm = NoTM

\* Tile(file, in_memory=...): parse the headers, then load the grid if asked.
\* An exception from the headers or from the eager load leaves no Tile object.
Construct(in_memory) ==
    /\ tile = "Unopened"
    /\ LET h == ParseHeaders(file)
           r == LoadData(file, h.dsi, TRUE)
       IN  IF h.outcome.kind = "error"
             THEN /\ tile' = "Failed"
                  /\ uhl' = NoUHL /\ dsi' = NoDSI /\ acc' = NoACC
                  /\ data' = NoData
                  /\ handles' = WithFile(handles, h.outcome)
                  /\ last' = Call("Tile", in_memory, NoPoint, h.outcome, FALSE, TRUE,
                                  FALSE, FALSE)
           ELSE IF in_memory /\ ~r.assigned
             THEN /\ tile' = "Failed"
                  /\ uhl' = NoUHL /\ dsi' = NoDSI /\ acc' = NoACC
                  /\ data' = NoData
                  /\ handles' = WithFile(WithFile(handles, h.outcome), ReturnedNone)
                  /\ last' = Call("Tile", in_memory, NoPoint, r.outcome, FALSE, TRUE,
                                  FALSE, FALSE)
           ELSE /\ tile' = "HeaderParsed"
                /\ uhl' = h.uhl /\ dsi' = h.dsi /\ acc' = h.acc
                /\ data' = IF in_memory THEN DataAfterLoad(NoData, r) ELSE NoData
                /\ handles' = IF in_memory
                                THEN WithFile(WithFile(handles, h.outcome), ReturnedNone)
                                ELSE WithFile(handles, h.outcome)
                /\ last' = Call("Tile", in_memory, NoPoint, ReturnedNone, FALSE, TRUE,
                                in_memory /\ r.warned, FALSE)
    /\ UNCHANGED <<file, raw, conv, applied, ix, ll, ts, tm>>

\* tile.load_data(perform_checksum=...): the file is open only while the data
\* record is read; the blocks are parsed after it is closed.
CallLoadData(perform_checksum) ==
    /\ tile = "HeaderParsed"
    /\ LET r == LoadData(file, dsi, perform_checksum)
       IN  /\ data' = DataAfterLoad(data, r)
           /\ last' = Call("load_data", perform_checksum, NoPoint, r.outcome, FALSE,
                           TRUE, r.warned, data.present)
    /\ handles' = WithFile(handles, ReturnedNone)
    /\ UNCHANGED <<file, tile, uhl, dsi, acc, raw, conv, applied, ix, ll, ts, tm>>

\* tile.get_elevation(p): the seek path parses the block inside the with
\* statement.
CallGetElevation(p) ==
    /\ tile = "HeaderParsed"
    /\ LET r == GetElevation(file, dsi, data, p)
       IN  /\ last' = Call("get_elevation", FALSE, p, r.outcome, FALSE, r.read, r.warned,
                           data.present)
           /\ handles' = IF r.read THEN WithFile(handles, r.outcome) ELSE handles
           /\ data' = DataAfterLookup(data, r)
    /\ UNCHANGED <<file, tile, uhl, dsi, acc, raw, conv, applied, ix, ll, ts, tm>>

\* p in tile
CallContains(p) ==
    /\ tile = "HeaderParsed"
    /\ last' = Call("contains", FALSE, p, ReturnedNone, Contains(dsi, p), FALSE, FALSE,
                    data.present)
    /\ UNCHANGED <<file, tile, uhl, dsi, acc, data, handles, raw, conv, applied, ix,
                   ll, ts, tm>>

\* tile.data
CallData ==
    /\ tile = "HeaderParsed"
    /\ last' = Call("data", FALSE, NoPoint, DataAccessor(data), FALSE, FALSE, FALSE,
                    data.present)
    /\ UNCHANGED <<file, tile, uhl, dsi, acc, data, handles, raw, conv, applied, ix,
                   ll, ts, tm>>

\* AccuracyDescription.from_bytes(b, unsafe=...) on the ACC bytes of the file,
\* called on its own: it builds a record and touches no Tile.
CallACCFromBytes(unsafe) ==
    /\ tile = "Unopened"
    /\ last.op = ""
    /\ LET a == ACCFromBytes(file, unsafe)
       IN  last' = [Call("ACC.from_bytes", unsafe, NoPoint, a.outcome, FALSE, FALSE,
                         FALSE, FALSE) EXCEPT !.record = a.record]
    /\ UNCHANGED <<file, tile, uhl, dsi, acc, data, handles, raw, conv, applied, ix,
                   ll, ts, tm>>

Next ==
    \/ \E in_memory \in BOOLEAN : Construct(in_memory)
    \/ \E perform_checksum \in BOOLEAN : CallLoadData(perform_checksum)
    \/ \E p \in Points(file.hdr) : CallGetElevation(p)
    \/ \E p \in Points(file.hdr) : CallContains(p)
    \/ CallData
    \/ \E unsafe \in BOOLEAN : CallACCFromBytes(unsafe)

Spec == Init /\ [][Next]_vars

-----------------------------------------------------------------------------
(* The conversion applied to every 16-bit pattern, as the unit test does:   *)
(* the pattern viewed as a one-element int16 array and converted.           *)

InitConvert ==
    /\ raw \in 0..(2^16 - 1)
    /\ conv = Int16Of(raw)
    /\ applied = 0
    /\ file = NoFile /\ tile = "Unopened" /\ uhl = NoUHL /\ dsi = NoDSI /\ acc = NoACC
    /\ data = NoData /\ handles = 0
    /\ last = NoCall /\ ix = NoIx /\ ll = NoLL /\ ts = NoTS
    /\ tm = NoTM

Convert ==
    /\ applied < 2
    /\ conv' = ConvertSignedMagnitude1(<<conv>>)[1]
    /\ applied' = applied + 1
    /\ UNCHANGED <<file, tile, uhl, dsi, acc, data, handles, last, raw, ix, ll, ts, tm>>

NextConvert == Convert

SpecConvert == InitConvert /\ [][NextConvert]_vars

-----------------------------------------------------------------------------
(* The index arithmetic of get_elevation on full-size grids: one axis of a  *)
(* one-degree cell, with the post counts and intervals of real DTED files.  *)

\* (post count, interval in tenths of an arc-second)
AxisKinds == {<<3601, 10>>, <<1801, 20>>, <<1201, 30>>, <<601, 60>>}
AxisOffsets == {5 * k : k \in 0..(TenthsPerDegree \div 5)}

InitIndex ==
    /\ \E a \in AxisKinds, o \in AxisOffsets :
          ix = [count |-> a[1], interval |-> a[2], offset |-> o, index |-> 0,
                done |-> FALSE]
    /\ file = NoFile /\ tile = "Unopened" /\ uhl = NoUHL /\ dsi = NoDSI /\ acc = NoACC
    /\ data = NoData /\ handles = 0
    /\ last = NoCall /\ raw = 0 /\ conv = 0 /\ applied = 0 /\ ll = NoLL /\ ts = NoTS
    /\ tm = NoTM

ComputeIndex ==
    /\ ~ix.done
    /\ ix' = [ix EXCEPT !.index = GridIndex(ix.offset, 0, ix.count, ix.interval),
                        !.done = TRUE]
    /\ UNCHANGED <<file, tile, uhl, dsi, acc, data, handles, last, raw, conv, applied,
                   ll, ts, tm>>

NextIndex == ComputeIndex

SpecIndex == InitIndex /\ [][NextIndex]_vars

-----------------------------------------------------------------------------
(* LatLon: the range check of the constructor and LatLon.from_dted, on      *)
(* coordinate strings held as sequences of ASCII codes.  Degrees are held   *)
(* in tenths of an arc-second: 90 degrees is 90 * 36000.                    *)

\* A constructor whose bounds are exclusive.
LatLonInitOpen(lat, lon) ==
    IF ~((0 - 90) * TenthsPerDegree < lat /\ lat < 90 * TenthsPerDegree)
      THEN [outcome |-> Raised("ValueError", "latitude", Small(lat)), value |-> NoPoint]
    ELSE IF ~((0 - 180) * TenthsPerDegree < lon /\ lon < 180 * TenthsPerDegree)
      THEN [outcome |-> Raised("ValueError", "longitude", Small(lon)), value |-> NoPoint]
    ELSE [outcome |-> ReturnedNone, value |-> LatLon(lat, lon)]

\* LatLon(latitude, longitude): the dataclass constructor and __post_init__.
LatLonInit(lat, lon) ==
    IF ~((0 - 90) * TenthsPerDegree <= lat /\ lat <= 90 * TenthsPerDegree)
      THEN [outcome |-> Raised("ValueError", "latitude", Small(lat)), value |-> NoPoint]
    ELSE IF ~((0 - 180) * TenthsPerDegree <= lon /\ lon <= 180 * TenthsPerDegree)
      THEN [outcome |-> Raised("ValueError", "longitude", Small(lon)), value |-> NoPoint]
    ELSE [outcome |-> ReturnedNone, value |-> LatLon(lat, lon)]

\* float(s) of a string of digits with at most one '.', in tenths (the inputs
\* carry at most one digit after the point).
FloatIsValid(s) ==
    LET dots == {k \in 1..Len(s) : s[k] = 46}
    IN  /\ Cardinality(dots) <= 1
        /\ Len(s) > Cardinality(dots)
        /\ \A k \in 1..Len(s) : IsDigit(s[k]) \/ s[k] = 46
FloatTenths(s) ==
    LET dots == {k \in 1..Len(s) : s[k] = 46}
        dot == IF dots = {} THEN Len(s) + 1 ELSE CHOOSE k \in dots : TRUE
    IN  10 * DigitsValue(SubSeq(s, 1, dot - 1))
        + (IF dot < Len(s) THEN s[dot + 1] - 48 ELSE 0)

\* A parser that always takes the last two characters as the seconds.
ParseDmsCoordinateTwo(coordinate) ==
    LET seconds_index == 0 - 2
        minutes_index == seconds_index - 2
        d == PySlice(coordinate, 0, minutes_index)
        m == PySlice(coordinate, minutes_index, seconds_index)
        sec == PySlice(coordinate, seconds_index, Len(coordinate))
    IN  IF Len(coordinate) < 2 THEN [ok |-> FALSE, error |-> "IndexError", dms |-> <<0, 0, 0>>]
        ELSE IF ~IntIsValid(d) \/ ~IntIsValid(m) \/ ~FloatIsValid(sec)
          THEN [ok |-> FALSE, error |-> "ValueError", dms |-> <<0, 0, 0>>]
        ELSE [ok |-> TRUE, error |-> "", dms |-> <<IntValue(d), IntValue(m), FloatTenths(sec)>>]

\* parse_dms_coordinate: (degrees, minutes, seconds in tenths), or the
\* exception of coordinate[-2], int() or float().
ParseDmsCoordinate(coordinate) ==
    LET seconds_index == IF coordinate[Len(coordinate) - 1] = 46 THEN 0 - 4 ELSE 0 - 2
        minutes_index == seconds_index - 2
        d == PySlice(coordinate, 0, minutes_index)
        m == PySlice(coordinate, minutes_index, seconds_index)
        sec == PySlice(coordinate, seconds_index, Len(coordinate))
    IN  IF Len(coordinate) < 2 THEN [ok |-> FALSE, error |-> "IndexError", dms |-> <<0, 0, 0>>]
        ELSE IF ~IntIsValid(d) \/ ~IntIsValid(m) \/ ~FloatIsValid(sec)
          THEN [ok |-> FALSE, error |-> "ValueError", dms |-> <<0, 0, 0>>]
        ELSE [ok |-> TRUE, error |-> "", dms |-> <<IntValue(d), IntValue(m), FloatTenths(sec)>>]

\* dms_to_decimal: degree + (minute + second / 60) / 60, times 36000.
DmsToDecimal(dms) == dms[1] * TenthsPerDegree + dms[2] * 600 + dms[3]

\* LatLon.from_dted: the outcome, the LatLon built and the two parsed triples.
\* 83 is "S" and 87 is "W".
FromDted(latitude_str, longitude_str) ==
    LET lat_sign == IF latitude_str[Len(latitude_str)] = 83 THEN 0 - 1 ELSE 1
        lat == ParseDmsCoordinate(PySlice(latitude_str, 0, 0 - 1))
        lon_sign == IF longitude_str[Len(longitude_str)] = 87 THEN 0 - 1 ELSE 1
        lon == ParseDmsCoordinate(PySlice(longitude_str, 0, 0 - 1))
        built == LatLonInit(lat_sign * DmsToDecimal(lat.dms), lon_sign * DmsToDecimal(lon.dms))
    IN  IF ~lat.ok
          THEN [outcome |-> Raised(lat.error, "latitude_str", Small(0)), value |-> NoPoint,
                lat_dms |-> lat.dms, lon_dms |-> <<0, 0, 0>>]
        ELSE IF ~lon.ok
          THEN [outcome |-> Raised(lon.error, "longitude_str", Small(0)), value |-> NoPoint,
                lat_dms |-> lat.dms, lon_dms |-> lon.dms]
        ELSE [outcome |-> built.outcome, value |-> built.value,
              lat_dms |-> lat.dms, lon_dms |-> lon.dms]

\* The coordinate fields handed to from_dted: `width` degree digits, two minute
\* digits, two second digits, ".S" if frac >= 0, and the hemisphere letter.
DmsField(width, deg, min, sec, frac, hemi) ==
    (IF width = 3 THEN <<48 + (deg \div 100)>> ELSE <<>>)
    \o <<48 + ((deg \div 10) % 10), 48 + (deg % 10), 48 + (min \div 10), 48 + (min % 10),
         48 + (sec \div 10), 48 + (sec % 10)>>
    \o (IF frac >= 0 THEN <<46, 48 + frac>> ELSE <<>>)
    \o <<hemi>>
DmsSources(width, degrees) ==
    [width : {width}, deg : degrees, min : {0, 30}, sec : {0, 45}, frac : {0 - 1, 6},
     hemi : {78, 83, 69, 87}]
    \cup (IF width = 3
            THEN {[width |-> 3, deg |-> 117, min |-> 0, sec |-> 3, frac |-> 6, hemi |-> 87],
                  [width |-> 3, deg |-> 123, min |-> 45, sec |-> 67, frac |-> 8, hemi |-> 69]}
            ELSE {})
FieldOf(src) == DmsField(src.width, src.deg, src.min, src.sec, src.frac, src.hemi)

\* The decimal coordinates handed to the constructor: around the bounds and
\* the values of the unit test (-100, 100, -200, 200 degrees).
DirectLatitudes ==
    {(0 - 100) * TenthsPerDegree, (0 - 90) * TenthsPerDegree - 1, (0 - 90) * TenthsPerDegree,
     0, 90 * TenthsPerDegree, 90 * TenthsPerDegree + 1, 91 * TenthsPerDegree,
     100 * TenthsPerDegree}
DirectLongitudes ==
    {(0 - 200) * TenthsPerDegree, (0 - 180) * TenthsPerDegree - 1,
     (0 - 180) * TenthsPerDegree, 0, 180 * TenthsPerDegree, 180 * TenthsPerDegree + 1,
     181 * TenthsPerDegree, 200 * TenthsPerDegree}

InitLatLon ==
    /\ \/ \E lat \in DirectLatitudes, lon \in DirectLongitudes :
             ll = [op |-> "LatLon", lat |-> lat, lon |-> lon, lat_src |-> NoLL.lat_src,
                   lon_src |-> NoLL.lon_src, lat_str |-> <<>>, lon_str |-> <<>>, done |-> FALSE,
                   outcome |-> ReturnedNone, value |-> NoPoint,
                   lat_dms |-> <<0, 0, 0>>, lon_dms |-> <<0, 0, 0>>]
       \/ \E a \in DmsSources(2, {0, 42, 90}), o \in DmsSources(3, {0, 117, 180}) :
             ll = [op |-> "from_dted", lat |-> 0, lon |-> 0, lat_src |-> a, lon_src |-> o,
                   lat_str |-> FieldOf(a), lon_str |-> FieldOf(o), done |-> FALSE,
                   outcome |-> ReturnedNone, value |-> NoPoint,
                   lat_dms |-> <<0, 0, 0>>, lon_dms |-> <<0, 0, 0>>]
    /\ file = NoFile /\ tile = "Unopened" /\ uhl = NoUHL /\ dsi = NoDSI /\ acc = NoACC
    /\ data = NoData /\ handles = 0 /\ last = NoCall
    /\ raw = 0 /\ conv = 0 /\ applied = 0 /\ ix = NoIx /\ ts = NoTS
    /\ tm = NoTM

\* LatLon(latitude, longitude)
NewLatLon ==
    /\ ll.op = "LatLon" /\ ~ll.done
    /\ LET r == LatLonInit(ll.lat, ll.lon)
       IN  ll' = [ll EXCEPT !.done = TRUE, !.outcome = r.outcome, !.value = r.value]
    /\ UNCHANGED <<file, tile, uhl, dsi, acc, data, handles, last, raw, conv, applied, ix, ts, tm>>

\* LatLon.from_dted(latitude_str, longitude_str)
CallFromDted ==
    /\ ll.op = "from_dted" /\ ~ll.done
    /\ LET r == FromDted(ll.lat_str, ll.lon_str)
       IN  ll' = [ll EXCEPT !.done = TRUE, !.outcome = r.outcome, !.value = r.value,
                            !.lat_dms = r.lat_dms, !.lon_dms = r.lon_dms]
    /\ UNCHANGED <<file, tile, uhl, dsi, acc, data, handles, last, raw, conv, applied, ix, ts, tm>>

NextLatLon == NewLatLon \/ CallFromDted

SpecLatLon == InitLatLon /\ [][NextLatLon]_vars

-----------------------------------------------------------------------------
(* TileSet(source, suffix): the scan of a directory.  A directory is the    *)
(* sequence of its files in the order os.walk yields them; a Tile is named  *)
(* by the position of the file it was built from.                           *)

MaxFiles == 3

\* The files of a directory: two DTED files, a file whose UHL record does not
\* start with b"UHL1", a file whose DSI record does not start with b"DSI", and
\* a file of 50 bytes; `matches` says whether file.suffix is in the suffix
\* filter.
DirEntries ==
    [file : { PlainFile("unit"), PlainFile("coarse"),
              WithHead(PlainFile("unit"),
                       FileHead(HEADER_SIZE, <<85, 72, 76, 50>>, DSI_SENTINEL, ACC_SENTINEL,
                                GoodHead.accuracy)),
              WithHead(PlainFile("unit"),
                       FileHead(HEADER_SIZE, UHL_SENTINEL, <<68, 83, 74>>, ACC_SENTINEL,
                                GoodHead.accuracy)),
              WithHead(PlainFile("unit"),
                       FileHead(50, UHL_SENTINEL, DSI_SENTINEL, ACC_SENTINEL,
                                GoodHead.accuracy)) },
     matches : BOOLEAN]
Directories == UNION {[1..n -> DirEntries] : n \in 0..MaxFiles}

\* The loop of _include_directory from the k-th file on: `tiles` is
\* self._tiles and `bound` the Tile the local variable `tile` is bound to (0
\* while it is unbound).  Without a suffix filter only InvalidFileError is
\* suppressed, and self._tiles.add(tile) follows the with statement whether
\* or not the constructor assigned `tile`.
RECURSIVE IncludeFrom(_, _, _, _, _)
IncludeFrom(directory, suffix, k, tiles, bound) ==
    IF k > Len(directory) THEN [outcome |-> ReturnedNone, tiles |-> tiles]
    ELSE LET built == ParseHeaders(directory[k].file).outcome
             now == IF built.kind = "error" THEN bound ELSE k
         IN  IF suffix /\ ~directory[k].matches
               THEN IncludeFrom(directory, suffix, k + 1, tiles, bound)
             ELSE IF built.kind = "error" /\ (suffix \/ built.error # "InvalidFileError")
               THEN [outcome |-> built, tiles |-> tiles]
             ELSE IF now = 0
               THEN [outcome |-> Raised("UnboundLocalError", "tile", Small(k)),
                     tiles |-> tiles]
             ELSE IncludeFrom(directory, suffix, k + 1, tiles \cup {now}, now)

InitTileSet ==
    /\ \E d \in Directories, suffix \in BOOLEAN :
          ts = [directory |-> d, suffix |-> suffix, done |-> FALSE,
                outcome |-> ReturnedNone, tiles |-> {}]
    /\ file = NoFile /\ tile = "Unopened" /\ uhl = NoUHL /\ dsi = NoDSI /\ acc = NoACC
    /\ data = NoData /\ handles = 0 /\ last = NoCall
    /\ raw = 0 /\ conv = 0 /\ applied = 0 /\ ix = NoIx /\ ll = NoLL
    /\ tm = NoTM

\* TileSet(source, suffix): __init__, include and _include_directory.
NewTileSet ==
    /\ ~ts.done
    /\ LET r == IncludeFrom(ts.directory, ts.suffix, 1, {}, 0)
       IN  ts' = [ts EXCEPT !.done = TRUE, !.outcome = r.outcome, !.tiles = r.tiles]
    /\ UNCHANGED <<file, tile, uhl, dsi, acc, data, handles, last, raw, conv, applied, ix, ll,
                   tm>>

NextTileSet == NewTileSet

SpecTileSet == InitTileSet /\ [][NextTileSet]_vars

-----------------------------------------------------------------------------
(* The Tiles collection: a dict of Tile objects keyed by a string built     *)
(* from the south-west corner of each tile.                                 *)

MaxTiles == 2

\* str(n) of a Python int, as ASCII codes.
RECURSIVE DigitsOf(_)
DigitsOf(n) == IF n < 10 THEN <<48 + n>> ELSE DigitsOf(n \div 10) \o <<48 + (n % 10)>>
IntStr(n) == IF n < 0 THEN <<45>> \o DigitsOf(0 - n) ELSE DigitsOf(n)

\* int(math.floor(x)) of a coordinate, in degrees.
FloorDegrees(x) == x \div TenthsPerDegree

\* Tiles._get_dict_key_from_ll: the two floors formatted one after the other.
get_dict_key_from_ll(latlon) ==
    IntStr(FloorDegrees(latlon.latitude)) \o IntStr(FloorDegrees(latlon.longitude))

\* The files glob finds under the folder, in the order it yields them: DTED
\* files of level 1 or 2 named by the south-west corner in their DSI record
\* (in degrees: 1N 23E, 12N 3E, 1N 2E, 41N 71W, 1S 71W), and a .dt1 file that
\* Tile() rejects.
TileEntries ==
    [sw : { LatLon(1 * TenthsPerDegree, 23 * TenthsPerDegree),
            LatLon(12 * TenthsPerDegree, 3 * TenthsPerDegree),
            LatLon(1 * TenthsPerDegree, 2 * TenthsPerDegree),
            LatLon(41 * TenthsPerDegree, (0 - 71) * TenthsPerDegree),
            LatLon((0 - 1) * TenthsPerDegree, (0 - 71) * TenthsPerDegree) },
     level : {1, 2}, valid : {TRUE}]
    \cup {[sw |-> LatLon(1 * TenthsPerDegree, 2 * TenthsPerDegree), level |-> 1,
           valid |-> FALSE]}
Folders == UNION {[1..n -> TileEntries] : n \in 0..MaxTiles}

\* The loop of load_tiles_from_dir from the k-th file on: the files the search
\* pattern matches are constructed and stored under their key, a later file
\* replacing an earlier one of the same key; an exception of Tile() leaves
\* the loop.
RECURSIVE LoadTilesFrom(_, _, _, _)
LoadTilesFrom(folder, dted_level, k, tile_map) ==
    IF k > Len(folder) THEN [outcome |-> Returned(1), tile_map |-> tile_map]
    ELSE IF dted_level # 0 /\ folder[k].level # dted_level
      THEN LoadTilesFrom(folder, dted_level, k + 1, tile_map)
    ELSE IF ~folder[k].valid
      THEN [outcome |-> Raised("InvalidFileError", "Tile", Small(k)),
            tile_map |-> tile_map]
    ELSE LoadTilesFrom(folder, dted_level, k + 1,
                       [x \in DOMAIN tile_map \cup {get_dict_key_from_ll(folder[k].sw)} |->
                           IF x = get_dict_key_from_ll(folder[k].sw) THEN k
                           ELSE tile_map[x]])

\* The points asked of get_tile: a corner and an inner point of seven cells.
TilePoints ==
    { LatLon(c[1] * TenthsPerDegree + d, c[2] * TenthsPerDegree + d) :
        c \in { <<1, 23>>, <<12, 3>>, <<1, 2>>, <<41, 0 - 71>>, <<0 - 1, 0 - 71>>,
                <<11, 1>>, <<0, 0>> },
        d \in {0, TenthsPerDegree \div 2} }

\* Tiles(dted_level=...) and the folder handed to load_tiles_from_dir;
\* dted_level 0 stands for None.
InitTiles ==
    /\ \E f \in Folders, isdir \in BOOLEAN, level \in 0..2 :
          tm = [NoTM EXCEPT !.folder = f, !.isdir = isdir, !.dted_level = level]
    /\ file = NoFile /\ tile = "Unopened" /\ uhl = NoUHL /\ dsi = NoDSI /\ acc = NoACC
    /\ data = NoData /\ handles = 0 /\ last = NoCall
    /\ raw = 0 /\ conv = 0 /\ applied = 0 /\ ix = NoIx /\ ll = NoLL /\ ts = NoTS

\* tiles.load_tiles_from_dir(folder)
LoadTilesFromDir ==
    /\ ~tm.loaded
    /\ LET r == LoadTilesFrom(tm.folder, tm.dted_level, 1, tm.tile_map)
       IN  tm' = IF ~tm.isdir
                   THEN [tm EXCEPT !.loaded = TRUE, !.returned = Returned(0)]
                   ELSE [tm EXCEPT !.loaded = TRUE, !.returned = r.outcome,
                                   !.tile_map = r.tile_map]
    /\ UNCHANGED <<file, tile, uhl, dsi, acc, data, handles, last, raw, conv, applied, ix,
                   ll, ts>>

\* tiles.get_tile(p): the Tile stored under the key of p (the position of its
\* file in the folder), or None (0).
GetTile(p) ==
    /\ tm' = [tm EXCEPT !.asked = TRUE, !.point = p,
                        !.got = IF get_dict_key_from_ll(p) \in DOMAIN tm.tile_map
                                  THEN tm.tile_map[get_dict_key_from_ll(p)] ELSE 0]
    /\ UNCHANGED <<file, tile, uhl, dsi, acc, data, handles, last, raw, conv, applied, ix,
                   ll, ts>>

NextTiles == LoadTilesFromDir \/ (\E p \in TilePoints : GetTile(p))

SpecTiles == InitTiles /\ [][NextTiles]_vars

-----------------------------------------------------------------------------
(* Properties.                                                              *)

Live == tile = "HeaderParsed"
Looked == Live /\ last.op = "get_elevation"
Loaded == last.op = "load_data" \/ (last.op = "Tile" /\ last.flag)
LoadedVerified == (last.op = "load_data" /\ last.flag) \/ (last.op = "Tile" /\ last.flag)

\* The bounding box of the corners written in the file's DSI record.
InBox(p) ==
    /\ file.hdr.south_west_corner.latitude <= p.latitude
    /\ p.latitude <= file.hdr.north_east_corner.latitude
    /\ file.hdr.south_west_corner.longitude <= p.longitude
    /\ p.longitude <= file.hdr.north_east_corner.longitude

SameOutcome(a, b) == a.kind = b.kind /\ a.v = b.v /\ a.error = b.error

\* get_elevation(p) on a Tile of the same file whose grid is not resident.
OutOfMemory(p) == GetElevation(file, ParseDSI(file.hdr), NoData, p).outcome

LookedUpColumn == longitude_index(dsi, last.point)
IsColumn(c) == 0 <= c /\ c < dsi.shape[1]

\* C1 as claimed: for every file and every contained point, the lookup on a
\* resident grid and the seek-based lookup return the same elevation.
C1_PathsAgree ==
    (Looked /\ last.resident /\ InBox(last.point))
        => /\ last.outcome.kind = "value"
           /\ last.outcome = OutOfMemory(last.point)

\* C1: for every file and every contained point whose longitude index is a
\* column of the grid and whose column block passes its checksum, the lookup
\* on a resident grid and the seek-based lookup have the same outcome: the
\* same elevation, or the same exception.
C1_PathsAgreeOnVerifiedColumns ==
    (/\ Looked /\ last.resident /\ InBox(last.point)
     /\ IsColumn(LookedUpColumn)
     /\ ChecksumMatches(Column(file, dsi, LookedUpColumn)))
        => SameOutcome(last.outcome, OutOfMemory(last.point))

\* A resident lookup of a negative sample in the last column, which the seek
\* path reads from a verified block.
C1_Witness ==
    /\ Looked /\ last.resident /\ InBox(last.point)
    /\ LookedUpColumn = 1 /\ IsColumn(1)
    /\ ChecksumMatches(Column(file, dsi, 1))
    /\ last.outcome.kind = "value" /\ last.outcome.v < 0
    /\ OutOfMemory(last.point) = last.outcome

\* C2 as claimed: converting twice gives back every 16-bit pattern.
C2_Involution == applied = 2 => conv = Int16Of(raw)

\* C2: converting twice gives back every 16-bit pattern except 0x8000, which
\* converts to 0 and stays 0.
C2_InvolutionButNegativeZero ==
    applied = 2 => conv = (IF raw = 2^15 THEN 0 ELSE Int16Of(raw))

C2_Witness == applied = 2 /\ raw = 43690 /\ PatternOf(conv) = 43690

\* C3: a pattern r with the sign bit set converts to (0x8000 - r) modulo 2^16,
\* a pattern with the sign bit clear is unchanged; 0x0000 -> 0x0000,
\* 0x7FFF -> 0x7FFF, 0x8001 -> 0xFFFF, 0xAAAA -> 0xD556.
C3_ConversionFormula ==
    applied = 1 =>
        /\ PatternOf(conv) = (IF raw >= 2^15 THEN (2^15 - raw) % 2^16 ELSE raw)
        /\ (raw = 0 => PatternOf(conv) = 0)
        /\ (raw = 32767 => PatternOf(conv) = 32767)
        /\ (raw = 32769 => PatternOf(conv) = 65535)
        /\ (raw = 43690 => PatternOf(conv) = 54614)

C3_Witness == applied = 1 /\ raw = 43690 /\ PatternOf(conv) = 54614

Abs(n) == IF n < 0 THEN 0 - n ELSE n

\* C4 as claimed: the index computed for a point of the cell is that of the
\* post nearest to the point, the posts lying `interval` apart from the origin.
C4_NearestPost ==
    ix.done => 2 * Abs(ix.offset - ix.index * ix.interval) <= ix.interval

\* C5 as claimed, for files whose origin is their south-west corner: lookups
\* at the four corners give the four corners of the resident grid.
C5_Corners ==
    (Looked /\ last.resident /\ file.hdr.origin = file.hdr.south_west_corner) =>
        LET cols == Len(data.grid)
            rows == Len(data.grid[1])
        IN  /\ (last.point = dsi.south_west_corner
                    => last.outcome = Returned(data.grid[1][1]))
            /\ (last.point = dsi.north_west_corner
                    => last.outcome = Returned(data.grid[1][rows]))
            /\ (last.point = dsi.south_east_corner
                    => last.outcome = Returned(data.grid[cols][1]))
            /\ (last.point = dsi.north_east_corner
                    => last.outcome = Returned(data.grid[cols][rows]))

\* C6: get_elevation raises NoElevationDataError exactly when the point is not
\* contained, with the grid resident or not; it then returns no elevation
\* and does not open the file.
C6_OutOfCoverage ==
    Looked =>
        /\ (last.outcome.error = "NoElevationDataError") <=> ~InBox(last.point)
        /\ ~InBox(last.point) => (last.outcome.kind = "error" /\ ~last.read)

C6_Witness ==
    /\ Looked /\ last.resident /\ ~InBox(last.point)
    /\ last.outcome.error = "NoElevationDataError" /\ ~last.read

\* C7: contains(point) is true exactly when the point lies within the
\* latitudes and the longitudes of the south-west and north-east corners, both
\* ends included, whatever the origin and whether or not the grid is loaded.
C7_Contains ==
    (Live /\ last.op = "contains") => (last.answer <=> InBox(last.point))

\* A point on the north-east corner of a file whose origin is not its
\* south-west corner, asked of a Tile whose grid is loaded.
C7_Witness ==
    /\ Live /\ last.op = "contains" /\ last.answer /\ last.resident
    /\ last.point = file.hdr.north_east_corner
    /\ file.hdr.origin # file.hdr.south_west_corner

FullBlock(c) == Len(Column(file, ParseDSI(file.hdr), c)) = data_block_length(ParseDSI(file.hdr))
Columns == 0..(ParseDSI(file.hdr).shape[1] - 1)
HasSumMismatch(c) ==
    /\ Len(Column(file, ParseDSI(file.hdr), c)) >= 4
    /\ ~ChecksumMatches(Column(file, ParseDSI(file.hdr), c))

\* C8: with perform_checksum=True, load_data raises InvalidFileError whenever
\* one of the shape[0] blocks carries a checksum that differs from the sum of
\* its other bytes; with perform_checksum=False no such mismatch makes it
\* fail: it raises no checksum error, and loads every record whose blocks are
\* complete and start with the sentinel.
C8_ChecksumOptional ==
    /\ (LoadedVerified /\ \E c \in Columns : HasSumMismatch(c))
           => (last.outcome.kind = "error" /\ last.outcome.error = "InvalidFileError")
    /\ (last.op = "load_data" /\ ~last.flag)
           => /\ last.outcome.detail # "checksum"
              /\ (\A c \in Columns :
                     FullBlock(c) /\ Column(file, dsi, c)[1] = DATA_SENTINEL)
                    => (last.outcome.kind = "none" /\ data.present)

\* A verified load that fails on the checksum of the second block.
C8_Witness ==
    /\ Live /\ last.op = "load_data" /\ last.flag
    /\ HasSumMismatch(1) /\ ~HasSumMismatch(0)
    /\ last.outcome.error = "InvalidFileError" /\ last.outcome.detail = "checksum"

\* C9 as claimed: a load completes only if the data record holds exactly
\* shape[0] * data_block_length bytes, and then leaves shape[0] x shape[1]
\* samples.
C9_NoPartialGrid ==
    (Live /\ Loaded /\ last.outcome.kind = "none") =>
        /\ Len(file.rec) = dsi.shape[1] * data_block_length(dsi)
        /\ Len(data.grid) = dsi.shape[1]
        /\ \A c \in 1..Len(data.grid) : Len(data.grid[c]) = dsi.shape[2]

\* C10: load_data emits the VoidDataWarning exactly when a sample of the
\* converted grid is -32767, and then it completes and leaves the whole grid,
\* VOID samples included, resident.
C10_VoidWarning ==
    (Live /\ Loaded) =>
        /\ last.warned <=>
              /\ last.outcome.kind = "none"
              /\ \E c \in 1..Len(data.grid) : \E r \in 1..Len(data.grid[c]) :
                    data.grid[c][r] = 0 - 32767
        /\ last.warned =>
              /\ last.outcome.kind = "none" /\ data.present
              /\ Len(data.grid) = dsi.shape[1]

\* A load of a complete record whose first sample is the pattern 0xFFFF.
C10_Witness ==
    /\ Live /\ last.op = "load_data" /\ last.warned /\ data.present
    /\ Len(data.grid) = dsi.shape[1] /\ Len(data.grid[1]) = dsi.shape[2]
    /\ data.grid[1][1] = 0 - 32767
    /\ file.rec[9] = 255 /\ file.rec[10] = 255

-----------------------------------------------------------------------------
(* Properties of the Tile lifecycle, the header records and the handles.    *)

HeadComplete ==
    /\ file.head.len >= HEADER_SIZE
    /\ file.head.uhl_magic = UHL_SENTINEL
    /\ file.head.dsi_magic = DSI_SENTINEL
    /\ file.head.acc_magic = ACC_SENTINEL

\* The step is a load that completed: an eager construction or a load_data
\* call that returned.
LoadCompletes ==
    /\ tile' = "HeaderParsed"
    /\ last'.op = "load_data" \/ (last'.op = "Tile" /\ last'.flag)
    /\ last'.outcome.kind = "none"

\* C11: a constructed Tile holds the three records of a complete header; the
\* data accessor raises the not-loaded ValueError exactly when the grid is
\* absent; and the grid is present after a step exactly when it was present
\* before it or the step is a load that completed, so it is absent exactly
\* when no load has completed and, once present, stays present through every
\* later get_elevation, contains, data and load_data call, failed loads
\* included.
C11_Lifecycle ==
    /\ [](Live => /\ HeadComplete
                  /\ uhl.shape = file.hdr.uhl_counts
                  /\ dsi.origin = file.hdr.origin
                  /\ dsi.shape = <<LonCount(file.hdr), LatCount(file.hdr)>>)
    /\ []((Live /\ last.op = "data") =>
              /\ (last.outcome.kind = "error") <=> ~data.present
              /\ last.outcome.kind = "error" =>
                    (last.outcome.error = "ValueError" /\ last.outcome.detail = "not loaded"))
    /\ [][data'.present <=> (data.present \/ LoadCompletes)]_vars

\* The grid of a file with a wrong checksum, loaded without verification, is
\* still served by the accessor after a verified load of the same Tile failed.
C11_Witness ==
    /\ Live /\ last.op = "load_data" /\ last.flag /\ last.resident
    /\ last.outcome.error = "InvalidFileError"
    /\ data.present /\ DataAccessor(data).kind = "none"

\* data.shape of a resident grid: (columns, samples per column).
DataShape == <<Len(data.grid), Len(data.grid[1])>>

\* C12 as claimed: on every Tile that was constructed and loaded, the shape of
\* the grid, the DSI shape and the UHL shape are the same pair.
C12_ShapesAgree ==
    (Live /\ data.present) => (DataShape = dsi.shape /\ dsi.shape = uhl.shape)

\* What the size and sentinel checks of the three records, taken in file
\* order, make of the file: the first record that is short or, being whole,
\* does not start with its sentinel.
HeaderFault ==
    IF file.head.len < UHL_SIZE THEN <<"ValueError", "UHL size">>
    ELSE IF file.head.uhl_magic # <<85, 72, 76, 49>> THEN <<"InvalidFileError", "UHL sentinel">>
    ELSE IF file.head.len < UHL_SIZE + DSI_SIZE THEN <<"ValueError", "DSI size">>
    ELSE IF file.head.dsi_magic # <<68, 83, 73>> THEN <<"InvalidFileError", "DSI sentinel">>
    ELSE IF file.head.len < UHL_SIZE + DSI_SIZE + ACC_SIZE THEN <<"ValueError", "ACC size">>
    ELSE IF file.head.acc_magic # <<65, 67, 67>> THEN <<"InvalidFileError", "ACC sentinel">>
    ELSE <<"", "">>

HeaderDetails ==
    {"UHL size", "UHL sentinel", "DSI size", "DSI sentinel", "ACC size", "ACC sentinel"}

\* C13: a header parser given fewer bytes than its record size raises
\* ValueError, whatever the bytes are; given enough bytes that do not start
\* with its sentinel it raises InvalidFileError; Tile construction parses UHL,
\* DSI, ACC in this order and raises the first of these failures, leaving no
\* Tile; a file without such a fault raises none of them.  The ACC parser
\* called on its own behaves the same on the ACC bytes.
C13_HeaderErrors ==
    /\ last.op = "Tile" =>
          /\ HeaderFault # <<"", "">> =>
                /\ tile = "Failed" /\ last.outcome.kind = "error"
                /\ <<last.outcome.error, last.outcome.detail>> = HeaderFault
          /\ HeaderFault = <<"", "">> => last.outcome.detail \notin HeaderDetails
    /\ last.op = "ACC.from_bytes" =>
          /\ file.head.len < UHL_SIZE + DSI_SIZE + ACC_SIZE =>
                <<last.outcome.error, last.outcome.detail>> = <<"ValueError", "ACC size">>
          /\ (file.head.len >= UHL_SIZE + DSI_SIZE + ACC_SIZE
              /\ file.head.acc_magic # <<65, 67, 67>>) =>
                <<last.outcome.error, last.outcome.detail>>
                    = <<"InvalidFileError", "ACC sentinel">>

\* A file cut inside its DSI record, whose UHL record is whole and whose DSI
\* and ACC records do not start with their sentinels: the size check of the
\* DSI parser comes first.
C13_Witness ==
    /\ last.op = "Tile" /\ tile = "Failed"
    /\ file.head.len = 400 /\ file.head.uhl_magic = <<85, 72, 76, 49>>
    /\ file.head.dsi_magic # <<68, 83, 73>> /\ file.head.acc_magic # <<65, 67, 67>>
    /\ last.outcome.error = "ValueError" /\ last.outcome.detail = "DSI size"

\* The accuracy fields of the input files, read by hand: b"    " and b"1.5 "
\* are no integers, b"0050" is 50, b" 7  " is 7, b"NA  " is not available.
Malformed(field) == field \in {<<32, 32, 32, 32>>, <<49, 46, 53, 32>>}
Decoded(field) ==
    IF field = <<48, 48, 53, 48>> THEN [present |-> TRUE, v |-> 50]
    ELSE IF field = <<32, 55, 32, 32>> THEN [present |-> TRUE, v |-> 7]
    ELSE [present |-> FALSE, v |-> 0]
DecodedAccuracy(record) ==
    /\ record.absolute_horizontal = Decoded(file.head.accuracy[1])
    /\ record.absolute_vertical = Decoded(file.head.accuracy[2])
    /\ record.relative_horizontal = Decoded(file.head.accuracy[3])
    /\ record.relative_vertical = Decoded(file.head.accuracy[4])

-----------------------------------------------------------------------------
(* Properties of LatLon.                                                    *)

\* The coordinate a field was written from, in tenths of an arc-second; the
\* sign is negative for the given hemisphere letter only.
Meant(src, negative) ==
    (IF src.hemi = negative THEN 0 - 1 ELSE 1)
    * (src.deg * 36000 + src.min * 600 + src.sec * 10 + (IF src.frac >= 0 THEN src.frac ELSE 0))
MeantLatitude == IF ll.op = "LatLon" THEN ll.lat ELSE Meant(ll.lat_src, 83)
MeantLongitude == IF ll.op = "LatLon" THEN ll.lon ELSE Meant(ll.lon_src, 87)
InRange ==
    /\ 0 - 3240000 <= MeantLatitude /\ MeantLatitude <= 3240000
    /\ 0 - 6480000 <= MeantLongitude /\ MeantLongitude <= 6480000

\* C15: a LatLon, built directly or by from_dted, comes to exist exactly when
\* -90 <= latitude <= 90 and -180 <= longitude <= 180 (3240000 and 6480000
\* tenths of an arc-second), both ends included; otherwise the construction
\* raises ValueError and yields no value.
C15_RangeCheck ==
    ll.done =>
        /\ (ll.outcome.kind = "none") <=> InRange
        /\ InRange => ll.value = [latitude |-> MeantLatitude, longitude |-> MeantLongitude]
        /\ ~InRange => (ll.outcome.kind = "error" /\ ll.outcome.error = "ValueError"
                        /\ ll.value = NoPoint)

\* The construction of the point (90, -180), on both bounds.
C15_Witness ==
    /\ ll.done /\ ll.op = "LatLon" /\ ll.lat = 3240000 /\ ll.lon = 0 - 6480000
    /\ ll.outcome.kind = "none" /\ ll.value = [latitude |-> 3240000, longitude |-> 0 - 6480000]

\* C16: from_dted reads the seconds from the last 2 digits, or from the last 4
\* characters when the last but one is '.', the minutes from the 2 digits
\* before them and the degrees from what precedes, and builds
\* sign * (deg + (min + sec / 60) / 60), negative exactly for a latitude
\* field ending in 'S' and a longitude field ending in 'W'; "423045N" and
\* "1170003.6W" give 42.5125 and -117.001 degrees, "1234567.8" splits into
\* (123, 45, 67.8).
C16_FromDted ==
    (ll.done /\ ll.op = "from_dted") =>
        /\ ll.lat_dms = <<ll.lat_src.deg, ll.lat_src.min,
                          ll.lat_src.sec * 10 + (IF ll.lat_src.frac >= 0 THEN ll.lat_src.frac ELSE 0)>>
        /\ ll.lon_dms = <<ll.lon_src.deg, ll.lon_src.min,
                          ll.lon_src.sec * 10 + (IF ll.lon_src.frac >= 0 THEN ll.lon_src.frac ELSE 0)>>
        /\ ll.outcome.kind = "none" =>
              /\ ll.value.latitude = Meant(ll.lat_src, 83)
              /\ ll.value.longitude = Meant(ll.lon_src, 87)
        /\ (ll.lat_str = <<52, 50, 51, 48, 52, 53, 78>>
            /\ ll.lon_str = <<49, 49, 55, 48, 48, 48, 51, 46, 54, 87>>)
              => ll.value = [latitude |-> 1530450, longitude |-> 0 - 4212036]
        /\ ll.lon_str = <<49, 50, 51, 52, 53, 54, 55, 46, 56, 69>>
              => ll.lon_dms = <<123, 45, 678>>

\* from_dted("423045N", "1170003.6W")
C16_Witness ==
    /\ ll.done /\ ll.op = "from_dted" /\ ll.outcome.kind = "none"
    /\ ll.lat_str = <<52, 50, 51, 48, 52, 53, 78>>
    /\ ll.lon_str = <<49, 49, 55, 48, 48, 48, 51, 46, 54, 87>>
    /\ ll.value = [latitude |-> 1530450, longitude |-> 0 - 4212036]

-----------------------------------------------------------------------------
(* Properties of TileSet.                                                   *)

\* Tile(file, in_memory=False) succeeds on the k-th file of the directory, or
\* fails with InvalidFileError.
ValidAt(k) == ParseHeaders(ts.directory[k].file).outcome.kind = "none"
InvalidAt(k) == ParseHeaders(ts.directory[k].file).outcome.error = "InvalidFileError"

\* C17 as claimed: a scan without suffix filter of a directory whose files
\* are DTED files or files that Tile rejects with InvalidFileError completes
\* in whatever order they are visited, and leaves one Tile for each DTED file
\* and none for the others.
C17_SkipsInvalid ==
    (/\ ts.done /\ ~ts.suffix
     /\ \A k \in 1..Len(ts.directory) : ValidAt(k) \/ InvalidAt(k))
        => /\ ts.outcome.kind = "none"
           /\ ts.tiles = {k \in 1..Len(ts.directory) : ValidAt(k)}

-----------------------------------------------------------------------------
(* Properties of the file handle, the VOID advisory and the block sentinel. *)

\* C18: no handle is open on the file once an operation has returned or
\* raised: after a construction, whether it failed in a header record or in
\* the eager load, after a load_data and after a seek-based get_elevation,
\* whether it returned a sample or failed on the block it read.
C18_HandlesClosed ==
    /\ handles = 0
    /\ last.op \in {"Tile", "load_data"} => last.read

\* A seek-based get_elevation that opened the file and failed on the checksum
\* of the block it read.
C18_Witness ==
    /\ Looked /\ last.read /\ ~last.resident
    /\ last.outcome.error = "InvalidFileError" /\ last.outcome.detail = "checksum"
    /\ handles = 0

\* C19 as claimed: every decode that yields the VOID value -32767 notifies the
\* caller and does not fail: a load whose grid holds it, and a seek-based
\* get_elevation that returns it.
C19_VoidNotified ==
    /\ (Live /\ Loaded /\ last.outcome.kind = "none" /\ InGrid(data.grid, 0 - 32767))
          => last.warned
    /\ (Looked /\ last.read /\ last.outcome.kind = "value" /\ last.outcome.v = 0 - 32767)
          => last.warned

\* C19: a load (load_data, or the eager load of the constructor) whose grid
\* holds -32767 emits the VoidDataWarning and completes; get_elevation emits
\* no warning on either path, and the seek path returns a sample of -32767
\* like any other sample, without failing.
C19_VoidNotifiedOnLoad ==
    /\ (Live /\ Loaded /\ last.outcome.kind = "none" /\ InGrid(data.grid, 0 - 32767))
          => (last.warned /\ data.present)
    /\ Looked => ~last.warned
    /\ (/\ Looked /\ last.read /\ IsColumn(LookedUpColumn)
        /\ latitude_index(dsi, last.point) = 0
        /\ Len(Column(file, dsi, LookedUpColumn)) = data_block_length(dsi)
        /\ ChecksumMatches(Column(file, dsi, LookedUpColumn))
        /\ Column(file, dsi, LookedUpColumn)[1] = 170
        /\ Column(file, dsi, LookedUpColumn)[9] = 255
        /\ Column(file, dsi, LookedUpColumn)[10] = 255)
          => (last.outcome.kind = "value" /\ last.outcome.v = 0 - 32767)

\* A seek-based lookup of the south-west corner of a file whose first sample
\* is the pattern 0xFFFF: -32767 is returned and nothing is emitted.
C19_Witness ==
    /\ Looked /\ last.read /\ ~last.resident /\ ~last.warned
    /\ last.point = dsi.south_west_corner
    /\ last.outcome.kind = "value" /\ last.outcome.v = 0 - 32767
    /\ Len(file.rec) >= 10 /\ file.rec[9] = 255 /\ file.rec[10] = 255

\* The c-th block is whole and does not start with 0xAA, every block before it
\* parses, and the checksum of the c-th block is not verified or matches.
RejectedForSentinel(c, verify) ==
    /\ FullBlock(c) /\ Column(file, ParseDSI(file.hdr), c)[1] # 170
    /\ verify => ChecksumMatches(Column(file, ParseDSI(file.hdr), c))
    /\ \A j \in 0..(c - 1) :
          /\ FullBlock(j) /\ Column(file, ParseDSI(file.hdr), j)[1] = 170
          /\ verify => ChecksumMatches(Column(file, ParseDSI(file.hdr), j))

SentinelError ==
    /\ last.outcome.kind = "error" /\ last.outcome.error = "InvalidFileError"
    /\ last.outcome.detail = "sentinel"

\* C20 as claimed: a block that does not start with 0xAA is rejected with the
\* sentinel error, which reports the column index of the block, with the
\* checksum not verified or verified and matching.
C20_SentinelReportsColumn ==
    /\ \A c \in Columns :
          (/\ last.op = "load_data" \/ (last.op = "Tile" /\ last.flag /\ HeadComplete)
           /\ RejectedForSentinel(c, last.op = "Tile" \/ last.flag))
              => (SentinelError /\ last.outcome.reports = [high |-> 0, low |-> c])
    /\ (Looked /\ last.read /\ IsColumn(LookedUpColumn)
        /\ RejectedForSentinel(LookedUpColumn, TRUE))
          => (SentinelError /\ last.outcome.reports = [high |-> 0, low |-> LookedUpColumn])

\* C20: a block that does not start with 0xAA is rejected with
\* InvalidFileError, with the checksum not verified or verified and matching;
\* the error reports the byte found in place of 0xAA, not the column index.
\* A load raises it for the first such block in column order, a seek-based
\* get_elevation for the block it reads.
C20_SentinelReportsByte ==
    /\ \A c \in Columns :
          (/\ last.op = "load_data" \/ (last.op = "Tile" /\ last.flag /\ HeadComplete)
           /\ RejectedForSentinel(c, last.op = "Tile" \/ last.flag))
              => /\ SentinelError
                 /\ last.outcome.reports =
                       [high |-> 0, low |-> Column(file, ParseDSI(file.hdr), c)[1]]
    /\ (Looked /\ last.read /\ IsColumn(LookedUpColumn)
        /\ RejectedForSentinel(LookedUpColumn, TRUE))
          => /\ SentinelError
             /\ last.outcome.reports =
                   [high |-> 0, low |-> Column(file, dsi, LookedUpColumn)[1]]

\* An unverified load of a file whose second block starts with 0x55 and
\* carries a stale checksum.
C20_Witness ==
    /\ Live /\ last.op = "load_data" /\ ~last.flag
    /\ RejectedForSentinel(1, FALSE) /\ ~ChecksumMatches(Column(file, dsi, 1))
    /\ SentinelError /\ last.outcome.reports = [high |-> 0, low |-> 85]

\* The c-th block fails its checksum under verification and every block
\* before it parses.
RejectedForChecksum(c) ==
    /\ HasSumMismatch(c)
    /\ \A j \in 0..(c - 1) :
          /\ FullBlock(j) /\ Column(file, ParseDSI(file.hdr), j)[1] = 170
          /\ ChecksumMatches(Column(file, ParseDSI(file.hdr), j))

\* The 24-bit big-endian block count in bytes 1..3 of the c-th block.
BlockCount(c) ==
    Column(file, ParseDSI(file.hdr), c)[2] * 2^16
        + Column(file, ParseDSI(file.hdr), c)[3] * 2^8
        + Column(file, ParseDSI(file.hdr), c)[4]

ChecksumError ==
    /\ last.outcome.kind = "error" /\ last.outcome.error = "InvalidFileError"
    /\ last.outcome.detail = "checksum"

\* C21: the block index carried by a checksum failure is the block's own
\* count: for a block starting with 0xAA and the 24-bit count c, the error of
\* a verified load, or of a seek-based get_elevation reading that block,
\* reports c.
C21_IndexIsCount ==
    /\ \A c \in Columns :
          (/\ (last.op = "load_data" /\ last.flag)
                 \/ (last.op = "Tile" /\ last.flag /\ HeadComplete)
           /\ RejectedForChecksum(c)
           /\ Column(file, ParseDSI(file.hdr), c)[1] = 170)
              => /\ ChecksumError
                 /\ last.outcome.reports = [high |-> 0, low |-> BlockCount(c)]
    /\ (Looked /\ last.read /\ IsColumn(LookedUpColumn)
        /\ HasSumMismatch(LookedUpColumn)
        /\ Column(file, dsi, LookedUpColumn)[1] = 170)
          => /\ ChecksumError
             /\ last.outcome.reports = [high |-> 0, low |-> BlockCount(LookedUpColumn)]

\* The c-th block is whole and malformed (it does not start with 0xAA or,
\* under verification, fails its checksum) and every block before it is sound.
LowestBad(c, verify) ==
    /\ FullBlock(c)
    /\ \/ Column(file, ParseDSI(file.hdr), c)[1] # 170
       \/ verify /\ ~ChecksumMatches(Column(file, ParseDSI(file.hdr), c))
    /\ \A j \in 0..(c - 1) :
          /\ FullBlock(j) /\ Column(file, ParseDSI(file.hdr), j)[1] = 170
          /\ verify => ChecksumMatches(Column(file, ParseDSI(file.hdr), j))

\* The error _parse_data_block raises for the c-th block alone.
ErrorOfColumn(c, verify) ==
    IF verify /\ ~ChecksumMatches(Column(file, ParseDSI(file.hdr), c))
      THEN /\ ChecksumError
           /\ last.outcome.reports =
                 [high |-> 170 - Column(file, ParseDSI(file.hdr), c)[1],
                  low |-> 0 - BlockCount(c)]
      ELSE /\ SentinelError
           /\ last.outcome.reports =
                 [high |-> 0, low |-> Column(file, ParseDSI(file.hdr), c)[1]]

\* C22: load_data decodes the shape[0] blocks in increasing column order and
\* stops at the first bad one: the error it raises is the error of the
\* lowest-index malformed column, whatever is wrong with later columns, and a
\* load that completes holds exactly shape[0] columns.
C22_FirstBadColumn ==
    /\ \A c \in Columns :
          (/\ last.op = "load_data" \/ (last.op = "Tile" /\ last.flag /\ HeadComplete)
           /\ LowestBad(c, last.op = "Tile" \/ last.flag))
              => ErrorOfColumn(c, last.op = "Tile" \/ last.flag)
    /\ (Live /\ Loaded /\ last.outcome.kind = "none")
          => (data.present /\ Len(data.grid) = dsi.shape[1])

\* A verified load of a file whose first block starts with 0x55 and whose last
\* block fails its checksum: the sentinel error of column 0 is raised.
C22_Witness ==
    /\ Live /\ last.op = "load_data" /\ last.flag
    /\ file.damage.kind = "twobad2"
    /\ LowestBad(0, TRUE)
    /\ HasSumMismatch(dsi.shape[1] - 1)
    /\ SentinelError

-----------------------------------------------------------------------------
(* Properties of failures, of the indices and of the frame of each call.    *)

\* C23: failures are atomic.  A construction that fails in a header record or
\* in the eager load produces no Tile: no record and no grid is left.  A
\* load_data that fails on a Tile leaves the Tile and its grid exactly as they
\* were before the call: absent, or the grid loaded before; the columns the
\* failed call parsed are not kept.
C23_AtomicFailure ==
    /\ []((last.op = "Tile" /\ last.outcome.kind = "error")
             => /\ tile = "Failed" /\ ~data.present
                /\ uhl = NoUHL /\ dsi = NoDSI /\ acc = NoACC)
    /\ [][(last'.op = "load_data" /\ last'.outcome.kind = "error")
             => (data' = data /\ tile' = tile)]_vars

\* A verified load_data that fails on a checksum while the grid loaded without
\* verification is resident: the grid is still that grid.
C23_Witness ==
    /\ Live /\ last.op = "load_data" /\ last.flag /\ last.resident
    /\ ChecksumError
    /\ data = Grid(LoadData(file, dsi, FALSE).grid)
    /\ Len(data.grid) = dsi.shape[1]

\* C24: for every constructed Tile and every point it contains, the indices
\* get_elevation computes lie within the grid: 0 <= longitude index <=
\* shape[0] - 1 and 0 <= latitude index <= shape[1] - 1.
C24_IndicesInRange ==
    (Looked /\ Contains(dsi, last.point))
        => /\ 0 <= longitude_index(dsi, last.point)
           /\ longitude_index(dsi, last.point) <= dsi.shape[1] - 1
           /\ 0 <= latitude_index(dsi, last.point)
           /\ latitude_index(dsi, last.point) <= dsi.shape[2] - 1

\* C25: get_elevation and contains are read-only: a step of either leaves the
\* UHL, DSI and ACC records and the grid as they were, so a seek-based
\* get_elevation on a Tile without a grid leaves it without a grid; a step of
\* load_data leaves the three records as they were.
C25_ReadOnly ==
    [][/\ last'.op \in {"get_elevation", "contains"}
             => (uhl' = uhl /\ dsi' = dsi /\ acc' = acc /\ data' = data /\ tile' = tile)
       /\ last'.op = "load_data"
             => (uhl' = uhl /\ dsi' = dsi /\ acc' = acc /\ tile' = tile)]_vars

\* A seek-based get_elevation that returned a sample of a Tile without a
\* grid: the grid is still absent.
C25_Witness ==
    /\ Looked /\ last.read /\ ~last.resident
    /\ last.outcome.kind = "value"
    /\ ~data.present /\ data = NoData

\* C26: a raw 16-bit sample with sign bit s and 15-bit magnitude m converts to
\* (-1)^s * m: the pattern 0x8000 (negative zero) converts to 0, every
\* converted value lies in -32767..32767 and -32768 is never produced, by the
\* first conversion or by a second one.
C26_SignedMagnitude ==
    /\ applied = 1 =>
          /\ conv = (IF raw \div 2^15 = 1 THEN 0 - (raw % 2^15) ELSE raw % 2^15)
          /\ raw = 2^15 => conv = 0
    /\ applied >= 1 => (0 - 32767 <= conv /\ conv <= 32767 /\ conv # 0 - 2^15)

C26_Witness == applied = 1 /\ raw = 2^15 /\ Int16Of(raw) = 0 - 2^15 /\ conv = 0

-----------------------------------------------------------------------------
(* Properties of the Tiles collection.                                      *)

\* The one-degree cell of a point.
CellOf(p) == <<FloorDegrees(p.latitude), FloorDegrees(p.longitude)>>

\* The k-th file of the folder was constructed and stored by the load.
Stored(k) ==
    /\ tm.folder[k].valid
    /\ tm.dted_level = 0 \/ tm.folder[k].level = tm.dted_level

\* C27: tiles are keyed by the one-degree cell of their south-west corner and
\* the key is injective, two tiles of different cells never sharing a key:
\* after a load every stored tile's cell still holds a tile of that cell (no
\* tile of another cell replaced it), and get_tile(point) returns only a tile
\* of the cell of the point.
C27_KeyInjective ==
    /\ (tm.loaded /\ tm.returned = Returned(1))
          => \A k \in 1..Len(tm.folder) :
                Stored(k) => \E key \in DOMAIN tm.tile_map :
                                CellOf(tm.folder[tm.tile_map[key]].sw) = CellOf(tm.folder[k].sw)
    /\ (tm.asked /\ tm.got # 0) => CellOf(tm.folder[tm.got].sw) = CellOf(tm.point)

====
